---- MODULE Spec2Model ----
(***************************************************************************)
(* Vogue Tribe backend: cart, checkout, order lifecycle and payment        *)
(* reconciliation, modelled as request handlers over one relational store. *)
(*                                                                         *)
(* Every handler that awaits a read and then issues a separate write or    *)
(* transaction is two actions (the read with its guards, then the write),  *)
(* so that other requests can run in between, as they can on the server.   *)
(* Money is an integer number of 1/10000 naira, so that a percentage of a  *)
(* two-decimal amount is exact; Math.round(x * 100) / 100 is Round2.       *)
(***************************************************************************)
EXTENDS Integers, Sequences, FiniteSets, TLC

VARIABLES db, req, last, now, calc, view

vars == <<db, req, last, now, calc, view>>

----------------------------------------------------------------------------
(* Bounds of the model *)

MaxOrders == 2
MaxPayments == 2
MaxQty == 2
MaxTime == 2
InitStock == 2
MaxStock == 4

Users == {"u1", "u2"}
Variants == {"vA", "vB"}
Procs == {"r1", "r2"}
Addresses == {"a1", "a2"}
Coupons == {"PCT", "FIX", "SHIP"}
NoCoupon == "none"

(* The address store: a1 belongs to u1, a2 to u2; any other id is missing. *)
AddressOwner(a) == IF a = "a1" THEN "u1" ELSE "u2"
AddressIds == Addresses \cup {"a0"}

OrderStatus ==
    {"PENDING", "CONFIRMED", "PROCESSING", "SHIPPED", "DELIVERED", "CANCELLED", "REFUNDED"}
WebhookStatus == {"SUCCESS", "FAILED", "PENDING"}

----------------------------------------------------------------------------
(* Money *)

Naira(n) == n * 10000
Kobo(n) == n * 100

Max(a, b) == IF a >= b THEN a ELSE b

(* Math.round(x * 100) / 100: to the nearest kobo, halves up *)
Round2(x) == ((x + 50) \div 100) * 100

VAT_RATE_PER_MILLE == 75
FLAT_SHIPPING_NAIRA == 2500

(* x * num / den rounded to the nearest integer, halves up, for x >= 0; the
   quotient and the remainder are scaled apart to stay within 32 bits. *)
MulDivRound(x, num, den) ==
    (x \div den) * num + ((x % den) * num + (den \div 2)) \div den

(* x * num / den exactly (den divides x * num in every use) *)
MulDiv(x, num, den) ==
    (x \div den) * num + ((x % den) * num) \div den

(* Math.round(amount * VAT_RATE * 100) / 100 *)
calculateVAT(amount) ==
    MulDivRound(amount, VAT_RATE_PER_MILLE, 100000) * 100

(* VAT charged on the subtotal before the discount is taken off *)
calculateOrderTotal_vat_before_discount(subtotal, shippingCost, discount) ==
    LET discountedSubtotal == Max(subtotal - discount, 0)
        vat == calculateVAT(subtotal)
        total == discountedSubtotal + vat + shippingCost
    IN  [vat |-> Round2(vat),
         total |-> Round2(total),
         discountedSubtotal |-> Round2(discountedSubtotal)]

calculateOrderTotal(subtotal, shippingCost, discount) ==
    LET discountedSubtotal == Max(subtotal - discount, 0)
        vat == calculateVAT(discountedSubtotal)
        total == discountedSubtotal + vat + shippingCost
    IN  [vat |-> Round2(vat),
         total |-> Round2(total),
         discountedSubtotal |-> Round2(discountedSubtotal)]

----------------------------------------------------------------------------
(* The relational store *)

RECURSIVE SumOf(_, _)
SumOf(S, field) ==
    IF S = {} THEN 0
    ELSE LET x == CHOOSE y \in S : TRUE
         IN  x[field] + SumOf(S \ {x}, field)

NoItems == [v \in Variants |-> 0]

(* The Cart rows of one owner and the CartItem rows of that cart: rows counts
   the Cart rows, lines[v] the CartItem rows of variant v, items[v] the
   quantity on them. *)
NoCart ==
    [exists |-> FALSE, rows |-> 0, items |-> NoItems, lines |-> NoItems,
     couponId |-> NoCoupon]

(* A coupon row. maxUses = 0 and minOrderAmount = 0 stand for null. *)
CouponRow(type, value) ==
    [type |-> type, value |-> value, usedCount |-> 0, maxUses |-> 0,
     minOrderAmount |-> 0, isActive |-> TRUE, startsAt |-> 0, expiresAt |-> MaxTime + 1]

SeedCoupons ==
    [c \in Coupons |->
        CASE c = "PCT" -> CouponRow("PERCENTAGE", 15)
          [] c = "FIX" -> CouponRow("FIXED_AMOUNT", Naira(1000))
          [] OTHER -> CouponRow("FREE_SHIPPING", 0)]

(* The address rows: street stands for the fields checkout copies. *)
SeedAddresses ==
    [a \in Addresses |->
        [exists |-> TRUE, userId |-> AddressOwner(a),
         street |-> IF a = "a1" THEN "Allen Avenue" ELSE "Broad Street"]]

SeedProductNames == [v \in Variants |-> IF v = "vA" THEN "Ankara Gown" ELSE "Agbada"]

SeedStore(basePrice, priceModifier, carts) ==
    [stock |-> [v \in Variants |-> InitStock],
     isActive |-> [v \in Variants |-> TRUE],
     basePrice |-> basePrice,
     priceModifier |-> priceModifier,
     productName |-> SeedProductNames,
     address |-> SeedAddresses,
     cart |-> carts,
     coupon |-> SeedCoupons,
     orders |-> << >>,
     payments |-> << >>]

Idle == [op |-> "idle"]
Response(op, outcome) ==
    [op |-> op, outcome |-> outcome]
NoCalc == [called |-> FALSE]

(* The statements issued on the shared client instead of tx: what ran before
   the throw stays. *)
transaction_without_rollback(before, partial, after, failed) ==
    IF failed THEN partial ELSE after

(* prisma.$transaction(async (tx) => ...): the statements take effect
   together, or, when one of them throws, not at all. *)
prisma_transaction(before, partial, after, failed) ==
    IF failed THEN before ELSE after

(* The wall clock that new Date() reads: it only moves forward. *)
Tick ==
    /\ now < MaxTime
    /\ now' = now + 1
    /\ UNCHANGED <<db, req, last, calc, view>>

----------------------------------------------------------------------------
(* CartService *)

CartLines(items) == {v \in Variants : items[v] > 0}

unitPriceOf(d, v) == d.basePrice[v] + d.priceModifier[v]

cartSubtotal(d, items) ==
    SumOf({[variantId |-> v, amount |-> unitPriceOf(d, v) * items[v]] :
              v \in CartLines(items)}, "amount")

(* The unique key of Cart that cart.findUnique({ where: { userId } }) looks a
   row up by: the number of rows that hold the key. *)
Cart_userId(d, userId) == d.cart[userId].rows

(* The unique key of CartItem on (cartId, variantId), likewise *)
cartId_variantId(d, userId, variantId) == d.cart[userId].lines[variantId]

(* let discount = 0; if (coupon) ... ; total = Math.max(0, subtotal - discount) *)
calculateTotals(d, items, couponId) ==
    LET subtotal == cartSubtotal(d, items)
        discount ==
            IF couponId = NoCoupon THEN 0
            ELSE LET coupon == d.coupon[couponId]
                 IN  IF coupon.type = "PERCENTAGE" THEN MulDiv(subtotal, coupon.value, 100)
                     ELSE IF coupon.type = "FIXED_AMOUNT" THEN coupon.value
                     ELSE 0
    IN  [subtotal |-> subtotal, discount |-> discount, total |-> Max(0, subtotal - discount)]

(* itemCount counting the lines instead of adding up their quantities *)
getCartResponse_counting_lines(d, userId) ==
    LET cart == d.cart[userId]
        totals == calculateTotals(d, cart.items, cart.couponId)
    IN  IF ~cart.exists
        THEN [id |-> "", items |-> NoItems, itemCount |-> 0, subtotal |-> 0,
              discount |-> 0, total |-> 0, coupon |-> NoCoupon]
        ELSE [id |-> userId,
              items |-> cart.items,
              itemCount |-> Cardinality(CartLines(cart.items)),
              subtotal |-> totals.subtotal,
              discount |-> totals.discount,
              total |-> totals.total,
              coupon |-> cart.couponId]

(* The body of the cart response; a user without a cart row gets the empty one. *)
getCartResponse(d, userId) ==
    LET cart == d.cart[userId]
        totals == calculateTotals(d, cart.items, cart.couponId)
    IN  IF ~cart.exists
        THEN [id |-> "", items |-> NoItems, itemCount |-> 0, subtotal |-> 0,
              discount |-> 0, total |-> 0, coupon |-> NoCoupon]
        ELSE [id |-> userId,
              items |-> cart.items,
              itemCount |-> SumOf({[variantId |-> v, quantity |-> cart.items[v]] :
                                      v \in CartLines(cart.items)}, "quantity"),
              subtotal |-> totals.subtotal,
              discount |-> totals.discount,
              total |-> totals.total,
              coupon |-> cart.couponId]

(* What the caller userId was last sent as a cart. *)
CartView(d, userId) == [userId |-> userId, data |-> getCartResponse(d, userId)]
NoView == [userId |-> "none"]

getCart(p, userId) ==
    /\ req[p] = Idle
    /\ view' = CartView(db, userId)
    /\ last' = Response("getCart", "OK")
    /\ UNCHANGED <<db, req, now, calc>>

(* Ids a caller may send: every variant there is, and one that is none. *)
AnyVariantId == Variants \cup {"v0"}

(* InsufficientStockException(available) *)
InsufficientStock(op, available) ==
    [op |-> op, outcome |-> "INSUFFICIENT_STOCK", available |-> available]

(* addItem up to the lookup of getOrCreateCart: the variant as read, with its
   tests, and whether the caller has a cart. *)
addItem_read(p, userId, variantId, quantity) ==
    /\ req[p] = Idle
    /\ IF variantId \notin Variants
       THEN /\ last' = Response("addItem", "NOT_FOUND")
            /\ UNCHANGED req
       ELSE LET stockQuantity == db.stock[variantId]
            IN  IF ~db.isActive[variantId]
                THEN /\ last' = Response("addItem", "NOT_FOUND")
                     /\ UNCHANGED req
                ELSE IF stockQuantity <= 0
                THEN /\ last' = Response("addItem", "OUT_OF_STOCK")
                     /\ UNCHANGED req
                ELSE IF stockQuantity < quantity
                THEN /\ last' = InsufficientStock("addItem", stockQuantity)
                     /\ UNCHANGED req
                ELSE /\ req' = [req EXCEPT ![p] =
                                   [op |-> "addItem",
                                    pc |-> IF db.cart[userId].exists
                                           THEN "findItem" ELSE "createCart",
                                    userId |-> userId,
                                    variantId |-> variantId,
                                    quantity |-> quantity,
                                    stockQuantity |-> stockQuantity,
                                    found |-> FALSE,
                                    existing |-> 0]]
                     /\ UNCHANGED last
    /\ UNCHANGED <<db, now, calc, view>>

(* cart.create inserting whether or not the owner has a row *)
addItem_createCart_without_unique_key(p) ==
    /\ req[p].op = "addItem"
    /\ req[p].pc = "createCart"
    /\ LET userId == req[p].userId
       IN  /\ db' = [db EXCEPT !.cart[userId].exists = TRUE,
                               !.cart[userId].rows = @ + 1]
           /\ last' = Response("getOrCreateCart", "CREATED")
           /\ req' = [req EXCEPT ![p].pc = "findItem"]
    /\ UNCHANGED <<now, calc, view>>

(* getOrCreateCart when it found no cart: cart.create, which throws when the
   owner has a row by now. *)
addItem_createCart(p) ==
    /\ req[p].op = "addItem"
    /\ req[p].pc = "createCart"
    /\ LET userId == req[p].userId
       IN  IF Cart_userId(db, userId) > 0
           THEN /\ last' = Response("getOrCreateCart", "UNIQUE_CONSTRAINT")
                /\ req' = [req EXCEPT ![p] = Idle]
                /\ UNCHANGED db
           ELSE /\ db' = [db EXCEPT !.cart[userId].exists = TRUE,
                                    !.cart[userId].rows = @ + 1]
                /\ last' = Response("getOrCreateCart", "CREATED")
                /\ req' = [req EXCEPT ![p].pc = "findItem"]
    /\ UNCHANGED <<now, calc, view>>

(* The merged quantity written without the test against the stock *)
addItem_findItem_without_merged_test(p) ==
    /\ req[p].op = "addItem"
    /\ req[p].pc = "findItem"
    /\ LET r == req[p]
           found == cartId_variantId(db, r.userId, r.variantId) > 0
           existing == db.cart[r.userId].items[r.variantId]
       IN  /\ req' = [req EXCEPT ![p].pc = "write",
                                 ![p].found = found,
                                 ![p].existing = IF found THEN existing ELSE 0]
           /\ UNCHANGED last
    /\ UNCHANGED <<db, now, calc, view>>

(* cartItem.findUnique and, for a line that is there, the test of the merged
   quantity against the stock read at the start. *)
addItem_findItem(p) ==
    /\ req[p].op = "addItem"
    /\ req[p].pc = "findItem"
    /\ LET r == req[p]
           found == cartId_variantId(db, r.userId, r.variantId) > 0
           existing == db.cart[r.userId].items[r.variantId]
           newQuantity == existing + r.quantity
       IN  IF found /\ newQuantity > r.stockQuantity
           THEN /\ last' = InsufficientStock("addItem", r.stockQuantity)
                /\ req' = [req EXCEPT ![p] = Idle]
           ELSE /\ req' = [req EXCEPT ![p].pc = "write",
                                      ![p].found = found,
                                      ![p].existing = IF found THEN existing ELSE 0]
                /\ UNCHANGED last
    /\ UNCHANGED <<db, now, calc, view>>

(* cartItem.create inserting whether or not the cart has a line of the variant *)
addItem_write_without_unique_key(p) ==
    /\ req[p].op = "addItem"
    /\ req[p].pc = "write"
    /\ LET r == req[p]
           userId == r.userId
           variantId == r.variantId
       IN  IF r.found /\ cartId_variantId(db, userId, variantId) = 0
           THEN /\ last' = Response("addItem", "RECORD_NOT_FOUND")
                /\ UNCHANGED <<db, view>>
           ELSE /\ db' = IF r.found
                         THEN [db EXCEPT !.cart[userId].items[variantId] =
                                             r.existing + r.quantity]
                         ELSE [db EXCEPT !.cart[userId].lines[variantId] = @ + 1,
                                         !.cart[userId].items[variantId] = @ + r.quantity]
                /\ last' = Response("addItem", "ITEM_ADDED")
                /\ view' = CartView(db', userId)
    /\ req' = [req EXCEPT ![p] = Idle]
    /\ UNCHANGED <<now, calc>>

(* The write of addItem and the cart it sends back: cartItem.update of the
   line found (it throws when the line is gone), or cartItem.create (it throws
   when the cart has a line of the variant by now). A line deleted and added
   again in between is taken for the line found. *)
addItem_write(p) ==
    /\ req[p].op = "addItem"
    /\ req[p].pc = "write"
    /\ LET r == req[p]
           userId == r.userId
           variantId == r.variantId
       IN  IF r.found /\ cartId_variantId(db, userId, variantId) = 0
           THEN /\ last' = Response("addItem", "RECORD_NOT_FOUND")
                /\ UNCHANGED <<db, view>>
           ELSE IF ~r.found /\ cartId_variantId(db, userId, variantId) > 0
           THEN /\ last' = Response("addItem", "UNIQUE_CONSTRAINT")
                /\ UNCHANGED <<db, view>>
           ELSE /\ db' = IF r.found
                         THEN [db EXCEPT !.cart[userId].items[variantId] =
                                             r.existing + r.quantity]
                         ELSE [db EXCEPT !.cart[userId].lines[variantId] = @ + 1,
                                         !.cart[userId].items[variantId] = @ + r.quantity]
                /\ last' = Response("addItem", "ITEM_ADDED")
                /\ view' = CartView(db', userId)
    /\ req' = [req EXCEPT ![p] = Idle]
    /\ UNCHANGED <<now, calc>>

(* updateItem up to its write. itemId names the line of the caller's cart that
   holds variantId. *)
updateItem_read(p, userId, variantId, quantity) ==
    /\ req[p] = Idle
    /\ LET cart == db.cart[userId]
           stockQuantity == db.stock[variantId]
       IN  IF ~cart.exists
           THEN /\ last' = Response("updateItem", "EMPTY_CART")
                /\ UNCHANGED req
           ELSE IF cartId_variantId(db, userId, variantId) = 0
           THEN /\ last' = Response("updateItem", "NOT_FOUND")
                /\ UNCHANGED req
           ELSE IF quantity > stockQuantity
           THEN /\ last' = InsufficientStock("updateItem", stockQuantity)
                /\ UNCHANGED req
           ELSE /\ req' = [req EXCEPT ![p] =
                              [op |-> "updateItem",
                               userId |-> userId,
                               variantId |-> variantId,
                               quantity |-> quantity,
                               stockQuantity |-> stockQuantity]]
                /\ UNCHANGED last
    /\ UNCHANGED <<db, now, calc, view>>

(* cartItem.update (it throws when the line is gone) and the cart sent back *)
updateItem_write(p) ==
    /\ req[p].op = "updateItem"
    /\ LET r == req[p]
       IN  IF cartId_variantId(db, r.userId, r.variantId) = 0
           THEN /\ last' = Response("updateItem", "RECORD_NOT_FOUND")
                /\ UNCHANGED <<db, view>>
           ELSE /\ last' = Response("updateItem", "ITEM_UPDATED")
                /\ db' = [db EXCEPT !.cart[r.userId].items[r.variantId] = r.quantity]
                /\ view' = CartView(db', r.userId)
    /\ req' = [req EXCEPT ![p] = Idle]
    /\ UNCHANGED <<now, calc>>

(* A removed line giving its quantity to the stock, as if the cart held it *)
removeItem_returning_stock(p, userId, variantId) ==
    /\ req[p] = Idle
    /\ LET cart == db.cart[userId]
       IN  IF ~cart.exists
           THEN /\ last' = Response("removeItem", "EMPTY_CART")
                /\ UNCHANGED <<db, view>>
           ELSE IF cart.items[variantId] = 0
           THEN /\ last' = Response("removeItem", "NOT_FOUND")
                /\ UNCHANGED <<db, view>>
           ELSE /\ last' = Response("removeItem", "ITEM_REMOVED")
                /\ db' = [db EXCEPT !.cart[userId].items[variantId] = 0,
                                    !.cart[userId].lines[variantId] = 0,
                                    !.stock[variantId] = @ + cart.items[variantId]]
                /\ view' = CartView(db', userId)
    /\ UNCHANGED <<req, now, calc>>

removeItem(p, userId, variantId) ==
    /\ req[p] = Idle
    /\ LET cart == db.cart[userId]
       IN  IF ~cart.exists
           THEN /\ last' = Response("removeItem", "EMPTY_CART")
                /\ UNCHANGED <<db, view>>
           ELSE IF cart.items[variantId] = 0
           THEN /\ last' = Response("removeItem", "NOT_FOUND")
                /\ UNCHANGED <<db, view>>
           ELSE /\ last' = Response("removeItem", "ITEM_REMOVED")
                /\ db' = [db EXCEPT !.cart[userId].items[variantId] = 0,
                                    !.cart[userId].lines[variantId] = 0]
                /\ view' = CartView(db', userId)
    /\ UNCHANGED <<req, now, calc>>

clearCart(p, userId) ==
    /\ req[p] = Idle
    /\ db' = IF db.cart[userId].exists
             THEN [db EXCEPT !.cart[userId].items = NoItems,
                             !.cart[userId].lines = NoItems,
                             !.cart[userId].couponId = NoCoupon]
             ELSE db
    /\ last' = Response("clearCart", "CART_CLEARED")
    /\ UNCHANGED <<req, now, calc, view>>

(* The amount as the text of an error message: naira and kobo. *)
formatNaira(amount) ==
    [naira |-> Round2(amount) \div 10000, kobo |-> (Round2(amount) % 10000) \div 100]

(* Codes a caller may send: every coupon there is, and one that is none. *)
AnyCouponCode == Coupons \cup {"NOCODE"}

(* The minimum test rejecting a subtotal equal to the minimum *)
applyCoupon_min_exclusive(p, userId, code) ==
    /\ req[p] = Idle
    /\ LET t == now
           cart == db.cart[userId]
           coupon == db.coupon[code]
           subtotal == cartSubtotal(db, cart.items)
           outcome ==
               IF ~cart.exists \/ CartLines(cart.items) = {} THEN "EMPTY_CART"
               ELSE IF code \notin Coupons THEN "INVALID_COUPON"
               ELSE IF ~coupon.isActive THEN "COUPON_NOT_ACTIVE"
               ELSE IF coupon.startsAt > t \/ coupon.expiresAt < t THEN "COUPON_EXPIRED"
               ELSE IF coupon.maxUses # 0 /\ coupon.usedCount >= coupon.maxUses
               THEN "COUPON_MAX_USES_REACHED"
               ELSE IF coupon.minOrderAmount # 0 /\ subtotal <= coupon.minOrderAmount
               THEN "COUPON_MIN_NOT_MET"
               ELSE "COUPON_APPLIED"
       IN  /\ last' = IF outcome = "COUPON_MIN_NOT_MET"
                      THEN [op |-> "applyCoupon", outcome |-> outcome,
                            minAmount |-> formatNaira(coupon.minOrderAmount)]
                      ELSE Response("applyCoupon", outcome)
           /\ IF outcome = "COUPON_APPLIED"
              THEN /\ db' = [db EXCEPT !.cart[userId].couponId = code]
                   /\ view' = CartView(db', userId)
              ELSE UNCHANGED <<db, view>>
    /\ UNCHANGED <<req, now, calc>>

(* The outcomes are the error codes, the three InvalidCouponException ones
   told apart by their messages. maxUses = 0 and a null maxUses both skip the
   cap test (coupon.maxUses && ...). *)
applyCoupon(p, userId, code) ==
    /\ req[p] = Idle
    /\ LET t == now
           cart == db.cart[userId]
           coupon == db.coupon[code]
           subtotal == cartSubtotal(db, cart.items)
           outcome ==
               IF ~cart.exists \/ CartLines(cart.items) = {} THEN "EMPTY_CART"
               ELSE IF code \notin Coupons THEN "INVALID_COUPON"
               ELSE IF ~coupon.isActive THEN "COUPON_NOT_ACTIVE"
               ELSE IF coupon.startsAt > t \/ coupon.expiresAt < t THEN "COUPON_EXPIRED"
               ELSE IF coupon.maxUses # 0 /\ coupon.usedCount >= coupon.maxUses
               THEN "COUPON_MAX_USES_REACHED"
               ELSE IF coupon.minOrderAmount # 0 /\ subtotal < coupon.minOrderAmount
               THEN "COUPON_MIN_NOT_MET"
               ELSE "COUPON_APPLIED"
       IN  /\ last' = IF outcome = "COUPON_MIN_NOT_MET"
                      THEN [op |-> "applyCoupon", outcome |-> outcome,
                            minAmount |-> formatNaira(coupon.minOrderAmount)]
                      ELSE Response("applyCoupon", outcome)
           /\ IF outcome = "COUPON_APPLIED"
              THEN /\ db' = [db EXCEPT !.cart[userId].couponId = code]
                   /\ view' = CartView(db', userId)
              ELSE UNCHANGED <<db, view>>
    /\ UNCHANGED <<req, now, calc>>

removeCoupon(p, userId) ==
    /\ req[p] = Idle
    /\ IF ~db.cart[userId].exists
       THEN /\ last' = Response("removeCoupon", "EMPTY_CART")
            /\ UNCHANGED <<db, view>>
       ELSE /\ last' = Response("removeCoupon", "COUPON_REMOVED")
            /\ db' = [db EXCEPT !.cart[userId].couponId = NoCoupon]
            /\ view' = CartView(db', userId)
    /\ UNCHANGED <<req, now, calc>>

----------------------------------------------------------------------------
(* OrdersService.checkout *)

(* The order lines built from the cart as read: one per cart line. *)
checkoutOrderItems(d, items) ==
    {[variantId |-> v,
      quantity |-> items[v],
      unitPrice |-> unitPriceOf(d, v),
      totalPrice |-> unitPriceOf(d, v) * items[v],
      productName |-> d.productName[v]] : v \in CartLines(items)}

(* let discount = 0; if (cart.coupon) ... *)
checkoutDiscount(d, couponId, subtotal) ==
    IF couponId = NoCoupon THEN 0
    ELSE LET coupon == d.coupon[couponId]
         IN  IF coupon.type = "PERCENTAGE" THEN MulDiv(subtotal, coupon.value, 100)
             ELSE IF coupon.type = "FIXED_AMOUNT" THEN coupon.value
             ELSE 0

checkoutShippingCost == Naira(FLAT_SHIPPING_NAIRA)

(* The order confirmed at creation, before any payment *)
checkoutSnapshot_confirmed_at_creation(d, userId, addressId) ==
    LET cart == d.cart[userId]
        orderItems == checkoutOrderItems(d, cart.items)
        subtotal == SumOf(orderItems, "totalPrice")
        discount == checkoutDiscount(d, cart.couponId, subtotal)
        totals == calculateOrderTotal(subtotal, checkoutShippingCost, discount)
    IN  [op |-> "checkout",
         userId |-> userId,
         couponId |-> cart.couponId,
         orderItems |-> orderItems,
         order |-> [userId |-> userId,
                    status |-> "CONFIRMED",
                    subtotal |-> totals.discountedSubtotal,
                    discount |-> discount,
                    shippingCost |-> checkoutShippingCost,
                    vat |-> totals.vat,
                    total |-> totals.total,
                    shippingAddress |-> [street |-> d.address[addressId].street],
                    couponId |-> cart.couponId,
                    items |-> orderItems]]

(* Everything checkout holds in memory once its reads and checks are done. *)
checkoutSnapshot(d, userId, addressId) ==
    LET cart == d.cart[userId]
        orderItems == checkoutOrderItems(d, cart.items)
        subtotal == SumOf(orderItems, "totalPrice")
        discount == checkoutDiscount(d, cart.couponId, subtotal)
        totals == calculateOrderTotal(subtotal, checkoutShippingCost, discount)
    IN  [op |-> "checkout",
         userId |-> userId,
         couponId |-> cart.couponId,
         orderItems |-> orderItems,
         order |-> [userId |-> userId,
                    status |-> "PENDING",
                    subtotal |-> totals.discountedSubtotal,
                    discount |-> discount,
                    shippingCost |-> checkoutShippingCost,
                    vat |-> totals.vat,
                    total |-> totals.total,
                    shippingAddress |-> [street |-> d.address[addressId].street],
                    couponId |-> cart.couponId,
                    items |-> orderItems]]

(* address.findFirst({ where: { id, userId } }) *)
addressFound(d, userId, addressId) ==
    /\ addressId \in Addresses
    /\ d.address[addressId].exists
    /\ d.address[addressId].userId = userId

(* The guards of checkout, in the order the code evaluates them. *)
checkoutGuard(d, userId, addressId) ==
    LET cart == d.cart[userId]
    IN  IF ~cart.exists \/ CartLines(cart.items) = {} THEN "EMPTY_CART"
        ELSE IF ~addressFound(d, userId, addressId)
        THEN "NOT_FOUND"
        ELSE IF \E v \in CartLines(cart.items) : d.stock[v] < cart.items[v]
        THEN "INSUFFICIENT_STOCK"
        ELSE "OK"

checkout_read(p, userId, addressId) ==
    /\ req[p] = Idle
    /\ LET outcome == checkoutGuard(db, userId, addressId)
       IN  IF outcome = "OK"
           THEN /\ Len(db.orders) + Cardinality({q \in Procs : req[q].op = "checkout"})
                      < MaxOrders
                /\ req' = [req EXCEPT ![p] = checkoutSnapshot(db, userId, addressId)]
                /\ UNCHANGED last
           ELSE /\ last' = Response("checkout", outcome)
                /\ UNCHANGED req
    /\ UNCHANGED <<db, now, calc, view>>

RECURSIVE decrementStock(_, _)
decrementStock(stock, orderItems) ==
    IF orderItems = {} THEN stock
    ELSE LET item == CHOOSE i \in orderItems : TRUE
         IN  decrementStock(
                 [stock EXCEPT ![item.variantId] = @ - item.quantity],
                 orderItems \ {item})

(* The coupon counted once per order line *)
checkoutStatements_increment_per_item(d, s, k) ==
    LET d1 == [d EXCEPT !.orders = Append(@, s.order)]
        d2 == [d1 EXCEPT !.stock = decrementStock(@, s.orderItems)]
        d3 == IF s.couponId # NoCoupon
              THEN [d2 EXCEPT !.coupon[s.couponId].usedCount = @ + Cardinality(s.orderItems)]
              ELSE d2
        d4 == [d3 EXCEPT !.cart[s.userId].items = NoItems,
                         !.cart[s.userId].lines = NoItems,
                         !.cart[s.userId].couponId = NoCoupon]
    IN  CASE k = 0 -> d
          [] k = 1 -> d1
          [] k = 2 -> d2
          [] k = 3 -> d3
          [] OTHER -> d4

(* The store after the first k statements of the checkout transaction:
   order.create, the stock decrements, the coupon increment, the cart clear. *)
checkoutStatements(d, s, k) ==
    LET d1 == [d EXCEPT !.orders = Append(@, s.order)]
        d2 == [d1 EXCEPT !.stock = decrementStock(@, s.orderItems)]
        d3 == IF s.couponId # NoCoupon
              THEN [d2 EXCEPT !.coupon[s.couponId].usedCount = @ + 1]
              ELSE d2
        d4 == [d3 EXCEPT !.cart[s.userId].items = NoItems,
                         !.cart[s.userId].lines = NoItems,
                         !.cart[s.userId].couponId = NoCoupon]
    IN  CASE k = 0 -> d
          [] k = 1 -> d1
          [] k = 2 -> d2
          [] k = 3 -> d3
          [] OTHER -> d4

(* failAt = 0: every statement succeeds; failAt = k: statement k throws. *)
checkout_tx(p, failAt) ==
    /\ req[p].op = "checkout"
    /\ LET s == req[p]
           failed == failAt # 0
       IN  /\ db' = prisma_transaction(
                        db,
                        checkoutStatements(db, s, Max(failAt - 1, 0)),
                        checkoutStatements(db, s, 4),
                        failed)
           /\ last' = IF failed
                      THEN Response("checkout", "TX_FAILED")
                      ELSE Response("checkout", "CREATED")
    /\ req' = [req EXCEPT ![p] = Idle]
    /\ UNCHANGED <<now, calc, view>>

----------------------------------------------------------------------------
(* OrdersService.cancelOrder and updateStatus *)

OrderIds == 1..Len(db.orders)
(* Ids a caller may send: every order there can be, and one that never exists. *)
AnyOrderId == 1..(MaxOrders + 1)

orderFound(d, userId, orderId) ==
    orderId \in 1..Len(d.orders) /\ d.orders[orderId].userId = userId

(* PROCESSING orders cancellable too *)
Cancellable_with_processing == {"PENDING", "CONFIRMED", "PROCESSING"}

Cancellable == {"PENDING", "CONFIRMED"}

cancelOrder_read(p, userId, orderId) ==
    /\ req[p] = Idle
    /\ IF ~orderFound(db, userId, orderId)
       THEN /\ last' = Response("cancelOrder", "ORDER_NOT_FOUND")
            /\ UNCHANGED req
       ELSE IF db.orders[orderId].status \notin Cancellable
       THEN /\ last' = Response("cancelOrder", "CANCEL_NOT_ALLOWED")
            /\ UNCHANGED req
       ELSE /\ req' = [req EXCEPT ![p] =
                        [op |-> "cancelOrder", userId |-> userId, orderId |-> orderId,
                         items |-> db.orders[orderId].items]]
            /\ UNCHANGED last
    /\ UNCHANGED <<db, now, calc, view>>

RECURSIVE restoreStock(_, _)
restoreStock(stock, items) ==
    IF items = {} THEN stock
    ELSE LET item == CHOOSE i \in items : TRUE
         IN  restoreStock(
                 [stock EXCEPT ![item.variantId] = @ + item.quantity],
                 items \ {item})

(* Stock given back only for an order that has a SUCCESS payment *)
cancelStatements_restore_only_if_paid(d, s, k) ==
    LET paid == \E i \in 1..Len(d.payments) :
                    d.payments[i].orderId = s.orderId /\ d.payments[i].status = "SUCCESS"
        d1 == IF paid THEN [d EXCEPT !.stock = restoreStock(@, s.items)] ELSE d
        d2 == [d1 EXCEPT !.orders[s.orderId].status = "CANCELLED"]
    IN  CASE k = 0 -> d
          [] k = 1 -> d1
          [] OTHER -> d2

(* The store after the first k statements of the cancellation transaction. *)
cancelStatements(d, s, k) ==
    LET d1 == [d EXCEPT !.stock = restoreStock(@, s.items)]
        d2 == [d1 EXCEPT !.orders[s.orderId].status = "CANCELLED"]
    IN  CASE k = 0 -> d
          [] k = 1 -> d1
          [] OTHER -> d2

cancelOrder_tx(p, failAt) ==
    /\ req[p].op = "cancelOrder"
    /\ \A v \in Variants : restoreStock(db.stock, req[p].items)[v] <= MaxStock
    /\ LET s == req[p]
           failed == failAt # 0
       IN  /\ db' = prisma_transaction(
                        db,
                        cancelStatements(db, s, Max(failAt - 1, 0)),
                        cancelStatements(db, s, 2),
                        failed)
           /\ last' = Response("cancelOrder", IF failed THEN "TX_FAILED" ELSE "CANCELLED")
    /\ req' = [req EXCEPT ![p] = Idle]
    /\ UNCHANGED <<now, calc, view>>

(* An admin cancellation that gives the stock back, as cancelOrder does *)
updateStatus_restoring_stock(p, orderId, status) ==
    /\ req[p] = Idle
    /\ IF orderId \notin OrderIds
       THEN /\ last' = Response("updateStatus", "ORDER_NOT_FOUND")
            /\ UNCHANGED db
       ELSE /\ last' = Response("updateStatus", status)
            /\ db' = [db EXCEPT !.orders[orderId].status = status,
                                !.stock = IF status = "CANCELLED"
                                          THEN restoreStock(@, db.orders[orderId].items)
                                          ELSE @]
    /\ UNCHANGED <<req, now, calc, view>>

(* order.findUnique, then order.update with data: { status: dto.status } *)
updateStatus(p, orderId, status) ==
    /\ req[p] = Idle
    /\ IF orderId \notin OrderIds
       THEN /\ last' = Response("updateStatus", "ORDER_NOT_FOUND")
            /\ UNCHANGED db
       ELSE /\ last' = Response("updateStatus", status)
            /\ db' = [db EXCEPT !.orders[orderId].status = status]
    /\ UNCHANGED <<req, now, calc, view>>

----------------------------------------------------------------------------
(* PaymentsService *)

PaymentIds == 1..Len(db.payments)
(* References a caller may send: every payment there can be, and an unknown one. *)
AnyReference == 1..(MaxPayments + 1)

paymentsOf(d, orderId) == {i \in 1..Len(d.payments) : d.payments[i].orderId = orderId}

(* Amounts a callback may carry: the total of some order, or a tampered one. *)
CallbackAmounts == {db.orders[o].total : o \in OrderIds} \cup {Naira(1)}

NoMetadata == [status |-> "none", amount |-> 0]

(* paidAt = 0 stands for null; the clock starts at 1. *)
newPayment(orderId, amount) ==
    [orderId |-> orderId, amount |-> amount, status |-> "PENDING",
     paidAt |-> 0, metadata |-> NoMetadata]

initializePayment_read(p, userId, orderId) ==
    /\ req[p] = Idle
    /\ IF ~orderFound(db, userId, orderId)
       THEN /\ last' = Response("initializePayment", "ORDER_NOT_FOUND")
            /\ UNCHANGED req
       ELSE IF \E i \in paymentsOf(db, orderId) : db.payments[i].status = "SUCCESS"
       THEN /\ last' = Response("initializePayment", "ALREADY_PAID")
            /\ UNCHANGED req
       ELSE IF \E i \in paymentsOf(db, orderId) : db.payments[i].status = "PENDING"
       THEN /\ last' = Response("initializePayment", "EXISTING_PENDING")
            /\ UNCHANGED req
       ELSE /\ Len(db.payments)
                 + Cardinality({q \in Procs : req[q].op = "initializePayment"})
                 < MaxPayments
            /\ req' = [req EXCEPT ![p] =
                        [op |-> "initializePayment", userId |-> userId,
                         orderId |-> orderId, total |-> db.orders[orderId].total]]
            /\ UNCHANGED last
    /\ UNCHANGED <<db, now, calc, view>>

initializePayment_create(p) ==
    /\ req[p].op = "initializePayment"
    /\ LET s == req[p]
       IN  /\ db' = [db EXCEPT !.payments = Append(@, newPayment(s.orderId, s.total))]
           /\ last' = Response("initializePayment", "INITIATED")
    /\ req' = [req EXCEPT ![p] = Idle]
    /\ UNCHANGED <<now, calc, view>>

(* The amount check left out *)
handleWebhook_read_without_amount_check(p, reference, status, amount) ==
    /\ req[p] = Idle
    /\ IF reference \notin PaymentIds
       THEN /\ last' = Response("handleWebhook", "PAYMENT_FAILED")
            /\ UNCHANGED req
       ELSE /\ req' = [req EXCEPT ![p] =
                        [op |-> "handleWebhook", paymentId |-> reference,
                         orderId |-> db.payments[reference].orderId,
                         dto |-> [status |-> status, amount |-> amount]]]
            /\ UNCHANGED last
    /\ UNCHANGED <<db, now, calc, view>>

(* Both failures throw PaymentFailedException; the amount mismatch is also
   logged, which the outcome records. *)
handleWebhook_read(p, reference, status, amount) ==
    /\ req[p] = Idle
    /\ IF reference \notin PaymentIds
       THEN /\ last' = Response("handleWebhook", "PAYMENT_FAILED")
            /\ UNCHANGED req
       ELSE IF db.payments[reference].amount # amount
       THEN /\ last' = Response("handleWebhook", "PAYMENT_FAILED_AMOUNT_MISMATCH")
            /\ UNCHANGED req
       ELSE /\ req' = [req EXCEPT ![p] =
                        [op |-> "handleWebhook", paymentId |-> reference,
                         orderId |-> db.payments[reference].orderId,
                         dto |-> [status |-> status, amount |-> amount]]]
            /\ UNCHANGED last
    /\ UNCHANGED <<db, now, calc, view>>

(* The payment updated, the order left as it was *)
webhookStatements_without_order_update(d, s, t, k) ==
    LET d1 == [d EXCEPT !.payments[s.paymentId].status = s.dto.status,
                        !.payments[s.paymentId].paidAt =
                            IF s.dto.status = "SUCCESS" THEN t ELSE 0,
                        !.payments[s.paymentId].metadata = s.dto]
    IN  IF k = 0 THEN d ELSE d1

(* The store after the first k statements of the webhook transaction. *)
webhookStatements(d, s, t, k) ==
    LET d1 == [d EXCEPT !.payments[s.paymentId].status = s.dto.status,
                        !.payments[s.paymentId].paidAt =
                            IF s.dto.status = "SUCCESS" THEN t ELSE 0,
                        !.payments[s.paymentId].metadata = s.dto]
        d2 == IF s.dto.status = "SUCCESS"
              THEN [d1 EXCEPT !.orders[s.orderId].status = "CONFIRMED"]
              ELSE d1
    IN  CASE k = 0 -> d
          [] k = 1 -> d1
          [] OTHER -> d2

handleWebhook_tx(p, failAt) ==
    /\ req[p].op = "handleWebhook"
    /\ LET s == req[p]
           failed == failAt # 0
       IN  /\ db' = prisma_transaction(
                        db,
                        webhookStatements(db, s, now, Max(failAt - 1, 0)),
                        webhookStatements(db, s, now, 2),
                        failed)
           /\ last' = Response("handleWebhook", IF failed THEN "TX_FAILED" ELSE s.dto.status)
    /\ req' = [req EXCEPT ![p] = Idle]
    /\ UNCHANGED <<now, calc, view>>

initiateRefund_read(p, paymentId) ==
    /\ req[p] = Idle
    /\ IF paymentId \notin PaymentIds \/ db.payments[paymentId].status # "SUCCESS"
       THEN /\ last' = Response("initiateRefund", "PAYMENT_FAILED")
            /\ UNCHANGED req
       ELSE /\ req' = [req EXCEPT ![p] =
                        [op |-> "initiateRefund", paymentId |-> paymentId,
                         orderId |-> db.payments[paymentId].orderId]]
            /\ UNCHANGED last
    /\ UNCHANGED <<db, now, calc, view>>

(* The payment refunded, the order left as it was *)
refundStatements_without_order_update(d, s, k) ==
    LET d1 == [d EXCEPT !.payments[s.paymentId].status = "REFUNDED"]
    IN  IF k = 0 THEN d ELSE d1

(* The refunded order's total set to 0 *)
refundStatements_zeroing_total(d, s, k) ==
    LET d1 == [d EXCEPT !.payments[s.paymentId].status = "REFUNDED"]
        d2 == [d1 EXCEPT !.orders[s.orderId].status = "REFUNDED",
                         !.orders[s.orderId].total = 0]
    IN  CASE k = 0 -> d
          [] k = 1 -> d1
          [] OTHER -> d2

(* The store after the first k statements of the refund transaction. *)
refundStatements(d, s, k) ==
    LET d1 == [d EXCEPT !.payments[s.paymentId].status = "REFUNDED"]
        d2 == [d1 EXCEPT !.orders[s.orderId].status = "REFUNDED"]
    IN  CASE k = 0 -> d
          [] k = 1 -> d1
          [] OTHER -> d2

initiateRefund_tx(p, failAt) ==
    /\ req[p].op = "initiateRefund"
    /\ LET s == req[p]
           failed == failAt # 0
       IN  /\ db' = prisma_transaction(
                        db,
                        refundStatements(db, s, Max(failAt - 1, 0)),
                        refundStatements(db, s, 2),
                        failed)
           /\ last' = Response("initiateRefund", IF failed THEN "TX_FAILED" ELSE "REFUND_SUCCESS")
    /\ req' = [req EXCEPT ![p] = Idle]
    /\ UNCHANGED <<now, calc, view>>

----------------------------------------------------------------------------
(* ProductsService: the admin's price edits *)

(* product.update with a dto that carries name and basePrice; each variant
   of the model is the only variant of its product. *)
ProductsService_update(p, variantId, dto) ==
    /\ req[p] = Idle
    /\ db' = [db EXCEPT !.basePrice[variantId] = dto.basePrice,
                        !.productName[variantId] = dto.name]
    /\ last' = Response("update", "UPDATED")
    /\ UNCHANGED <<req, now, calc, view>>

(* productVariant.update with data: dto, a dto that carries any of
   priceModifier, stockQuantity and isActive *)
updateVariant(p, variantId, dto) ==
    /\ req[p] = Idle
    /\ db' = [db EXCEPT
                 !.priceModifier[variantId] =
                     IF "priceModifier" \in DOMAIN dto THEN dto.priceModifier ELSE @,
                 !.stock[variantId] =
                     IF "stockQuantity" \in DOMAIN dto THEN dto.stockQuantity ELSE @,
                 !.isActive[variantId] =
                     IF "isActive" \in DOMAIN dto THEN dto.isActive ELSE @]
    /\ last' = Response("updateVariant", "VARIANT_UPDATED")
    /\ UNCHANGED <<req, now, calc, view>>

(* productVariant.update with data: { stockQuantity } *)
updateVariantStock(p, variantId, stockQuantity) ==
    /\ req[p] = Idle
    /\ db' = [db EXCEPT !.stock[variantId] = stockQuantity]
    /\ last' = Response("updateVariantStock", "STOCK_UPDATED")
    /\ UNCHANGED <<req, now, calc, view>>

----------------------------------------------------------------------------
(* UsersService: the user's address book *)

(* address.update with a dto that carries street *)
updateAddress(p, userId, addressId, street) ==
    /\ req[p] = Idle
    /\ IF ~addressFound(db, userId, addressId)
       THEN /\ last' = Response("updateAddress", "NOT_FOUND")
            /\ UNCHANGED db
       ELSE /\ last' = Response("updateAddress", "ADDRESS_UPDATED")
            /\ db' = [db EXCEPT !.address[addressId].street = street]
    /\ UNCHANGED <<req, now, calc, view>>

(* The deleted row keeps no content. *)
deleteAddress(p, userId, addressId) ==
    /\ req[p] = Idle
    /\ IF ~addressFound(db, userId, addressId)
       THEN /\ last' = Response("deleteAddress", "NOT_FOUND")
            /\ UNCHANGED db
       ELSE /\ last' = Response("deleteAddress", "ADDRESS_DELETED")
            /\ db' = [db EXCEPT !.address[addressId] =
                                    [exists |-> FALSE, userId |-> "none", street |-> ""]]
    /\ UNCHANGED <<req, now, calc, view>>

----------------------------------------------------------------------------
(* The system *)

(* A direct call of the exported helper. *)
calculateOrderTotal_call(subtotal, shippingCost, discount) ==
    /\ calc' = [called |-> TRUE, subtotal |-> subtotal, shippingCost |-> shippingCost,
                discount |-> discount,
                result |-> calculateOrderTotal(subtotal, shippingCost, discount)]
    /\ UNCHANGED <<db, req, last, now, view>>

SeedBasePrice == [v \in Variants |-> IF v = "vA" THEN Naira(10000) ELSE Naira(5000)]
SeedPriceModifier == [v \in Variants |-> IF v = "vA" THEN 0 ELSE Naira(500)]

NoResponse == Response("none", "none")

(* Carts as addItem and applyCoupon leave them: a line never exceeds the
   stock it was checked against, and a cart without lines has no coupon. *)
Cart(qtyA, qtyB, couponId) ==
    LET items == [v \in Variants |-> IF v = "vA" THEN qtyA ELSE qtyB]
    IN  [exists |-> TRUE,
         rows |-> 1,
         items |-> items,
         lines |-> [v \in Variants |-> IF items[v] > 0 THEN 1 ELSE 0],
         couponId |-> couponId]

SeedCarts ==
    {NoCart} \cup
    ({Cart(a, b, c) : a \in 0..MaxQty, b \in 0..1, c \in {NoCoupon, "PCT"}}
        \ {Cart(0, 0, "PCT")})

InitWith(store) ==
    /\ db = store
    /\ req = [p \in Procs |-> Idle]
    /\ last = NoResponse
    /\ now = 1
    /\ calc = NoCalc
    /\ view = NoView

(* Prices the admin may set: two-decimal amounts, basePrice positive. *)
NewProducts == {[name |-> "Ankara Gown II", basePrice |-> Naira(100) + Kobo(1)]}
NewPriceModifiers == {Naira(500)}

CartActions(P, U) ==
    \/ \E p \in P, u \in U, v \in AnyVariantId, q \in 1..MaxQty : addItem_read(p, u, v, q)
    \/ \E p \in P : addItem_createCart(p)
    \/ \E p \in P : addItem_findItem(p)
    \/ \E p \in P : addItem_write(p)
    \/ \E p \in P, u \in U, v \in Variants, q \in 1..MaxQty : updateItem_read(p, u, v, q)
    \/ \E p \in P : updateItem_write(p)
    \/ \E p \in P, u \in U, v \in Variants : removeItem(p, u, v)
    \/ \E p \in P, u \in U : clearCart(p, u)
    \/ \E p \in P, u \in U : getCart(p, u)

CouponActions(P, U, Codes) ==
    \/ \E p \in P, u \in U, c \in Codes : applyCoupon(p, u, c)
    \/ \E p \in P, u \in U : removeCoupon(p, u)

(* Streets the user may move an address to. *)
NewStreets == {"Marina Road"}

AddressActions(P, U) ==
    \/ \E p \in P, u \in U, a \in AddressIds, st \in NewStreets : updateAddress(p, u, a, st)
    \/ \E p \in P, u \in U, a \in AddressIds : deleteAddress(p, u, a)

PriceActions(P, V) ==
    \/ \E p \in P, v \in V, dto \in NewProducts : ProductsService_update(p, v, dto)
    \/ \E p \in P, v \in V, m \in NewPriceModifiers :
          updateVariant(p, v, [priceModifier |-> m])

CheckoutActions(P) ==
    \/ \E p \in P, u \in Users, a \in AddressIds : checkout_read(p, u, a)
    \/ \E p \in P, k \in 0..4 : checkout_tx(p, k)

CancelActions(P) ==
    \/ \E p \in P, u \in Users, o \in AnyOrderId : cancelOrder_read(p, u, o)
    \/ \E p \in P, k \in 0..2 : cancelOrder_tx(p, k)

AdminActions(P) ==
    \E p \in P, o \in AnyOrderId, s \in OrderStatus : updateStatus(p, o, s)

PaymentActions(P) ==
    \/ \E p \in P, u \in Users, o \in AnyOrderId : initializePayment_read(p, u, o)
    \/ \E p \in P : initializePayment_create(p)
    \/ \E p \in P, r \in AnyReference, s \in WebhookStatus, a \in CallbackAmounts :
          handleWebhook_read(p, r, s, a)
    \/ \E p \in P, k \in 0..2 : handleWebhook_tx(p, k)
    \/ \E p \in P, r \in AnyReference : initiateRefund_read(p, r)
    \/ \E p \in P, k \in 0..2 : initiateRefund_tx(p, k)

(* Coupons with the limits that applyCoupon tests: PCT may be used once and
   runs until time 1, FIX asks for an order of 11000 and takes 6000 off, SHIP
   starts at time 1. *)
PromoCoupons ==
    [c \in Coupons |->
        CASE c = "PCT" -> [CouponRow("PERCENTAGE", 15) EXCEPT !.maxUses = 1, !.expiresAt = 1]
          [] c = "FIX" -> [CouponRow("FIXED_AMOUNT", Naira(6000)) EXCEPT
                              !.minOrderAmount = Naira(11000)]
          [] OTHER -> [CouponRow("FREE_SHIPPING", 0) EXCEPT !.startsAt = 1]]

PromoStore(carts) ==
    [SeedStore(SeedBasePrice, SeedPriceModifier, carts) EXCEPT !.coupon = PromoCoupons]

(* SpecCart: u1 fills, edits and reads a cart and attaches coupons to it, one
   request at a time, while the clock runs from 0 and the admin reprices
   vA. *)
InitCart ==
    /\ db = PromoStore([u \in Users |-> NoCart])
    /\ req = [p \in Procs |-> Idle]
    /\ last = NoResponse
    /\ now = 0
    /\ calc = NoCalc
    /\ view = NoView
NextCart ==
    \/ Tick
    \/ CartActions({"r1"}, {"u1"})
    \/ CouponActions({"r1"}, {"u1"}, AnyCouponCode)
    \/ PriceActions({"r1"}, {"vA"})
SpecCart == InitCart /\ [][NextCart]_vars

(* SpecLines: two request handlers add vA, vB and a variant that does not
   exist to the cart of u1, which has none at the start, and set and remove
   its lines, concurrently, while the admin sets the stock of vA and takes vB
   off sale. *)
NewStock == {0, 1}
InitLines == InitWith(SeedStore(SeedBasePrice, SeedPriceModifier, [u \in Users |-> NoCart]))
NextLines ==
    \/ \E p \in Procs, v \in AnyVariantId, q \in 1..MaxQty : addItem_read(p, "u1", v, q)
    \/ \E p \in Procs : addItem_createCart(p)
    \/ \E p \in Procs : addItem_findItem(p)
    \/ \E p \in Procs : addItem_write(p)
    \/ \E p \in Procs, q \in 1..MaxQty : updateItem_read(p, "u1", "vA", q)
    \/ \E p \in Procs : updateItem_write(p)
    \/ \E p \in Procs : removeItem(p, "u1", "vA")
    \/ \E p \in Procs, n \in NewStock : updateVariantStock(p, "vA", n)
    \/ \E p \in Procs : updateVariant(p, "vB", [isActive |-> FALSE])
SpecLines == InitLines /\ [][NextLines]_vars

(* SpecPromo: u1 (one of each variant) and u2 (one of vB) attach and detach
   coupons, u1 takes lines out of the cart, and both check out, one request
   at a time, while the clock runs from 0. *)
PromoCarts ==
    [u \in Users |-> IF u = "u1" THEN Cart(1, 1, NoCoupon) ELSE Cart(0, 1, NoCoupon)]
InitPromo ==
    /\ db = PromoStore(PromoCarts)
    /\ req = [p \in Procs |-> Idle]
    /\ last = NoResponse
    /\ now = 0
    /\ calc = NoCalc
    /\ view = NoView
NextPromo ==
    \/ Tick
    \/ CouponActions({"r1"}, Users, AnyCouponCode)
    \/ \E v \in Variants : removeItem("r1", "u1", v)
    \/ CheckoutActions({"r1"})
SpecPromo == InitPromo /\ [][NextPromo]_vars

(* SpecCheckout: two request handlers check out, concurrently, carts that the
   cart operations filled. *)
InitCheckout ==
    \E carts \in [Users -> SeedCarts] :
        InitWith(SeedStore(SeedBasePrice, SeedPriceModifier, carts))
NextCheckout == CheckoutActions(Procs)
SpecCheckout == InitCheckout /\ [][NextCheckout]_vars

(* Spec: the whole life of the order that u1 checks out (two of vA, one of
   vB, the percentage coupon), one request at a time: checkout, cancellation,
   admin status updates, payments, webhooks and refunds. *)
OneCart == [u \in Users |-> IF u = "u1" THEN Cart(2, 1, "PCT") ELSE NoCart]
OneCartStore == SeedStore(SeedBasePrice, SeedPriceModifier, OneCart)
Init == InitWith(OneCartStore)
Next ==
    \/ CheckoutActions({"r1"})
    \/ CancelActions({"r1"})
    \/ AdminActions({"r1"})
    \/ PaymentActions({"r1"})
Spec == Init /\ [][Next]_vars

(* SpecCoupon: the life of the order of Spec, u1 first attaching the
   fixed-amount coupon to the cart, or a code that does not exist, and
   detaching it. *)
InitCoupon ==
    InitWith(SeedStore(SeedBasePrice, SeedPriceModifier,
                       [u \in Users |-> IF u = "u1" THEN Cart(2, 1, NoCoupon) ELSE NoCart]))
NextCoupon ==
    \/ CouponActions({"r1"}, {"u1"}, {"FIX", "NOCODE"})
    \/ Next
SpecCoupon == InitCoupon /\ [][NextCoupon]_vars

(* SpecFrozen: the order of Spec once it is checked out, while it is paid,
   refunded, cancelled and moved along by the admin, u1 edits and deletes the
   address it was shipped to, and the admin renames and reprices vA. *)
InitFrozen ==
    InitWith(checkoutStatements(OneCartStore,
                                checkoutSnapshot(OneCartStore, "u1", "a1"), 4))
NextFrozen ==
    \/ CancelActions({"r1"})
    \/ AdminActions({"r1"})
    \/ PaymentActions({"r1"})
    \/ AddressActions({"r1"}, {"u1"})
    \/ PriceActions({"r1"}, {"vA"})
SpecFrozen == InitFrozen /\ [][NextFrozen]_vars

(* SpecStock: everything that u1 and the admin can do around one variant: u1
   adds vA to the cart, sets and removes the line, attaches the percentage
   coupon, checks out once, pays and cancels; the admin ships or cancels the
   order, refunds it, and sets the stock of vA; the payment provider calls
   back with the order's total. One request at a time. *)
StockStatuses == {"SHIPPED", "CANCELLED"}
InitStocks ==
    InitWith(SeedStore(SeedBasePrice, SeedPriceModifier, [u \in Users |-> NoCart]))
NextStock ==
    \/ addItem_read("r1", "u1", "vA", 1)
    \/ addItem_createCart("r1")
    \/ addItem_findItem("r1")
    \/ addItem_write("r1")
    \/ updateItem_read("r1", "u1", "vA", 1)
    \/ updateItem_write("r1")
    \/ removeItem("r1", "u1", "vA")
    \/ clearCart("r1", "u1")
    \/ getCart("r1", "u1")
    \/ applyCoupon("r1", "u1", "PCT")
    \/ removeCoupon("r1", "u1")
    \/ Len(db.orders) = 0 /\ checkout_read("r1", "u1", "a1")
    \/ \E k \in 0..1 : checkout_tx("r1", k)
    \/ cancelOrder_read("r1", "u1", 1)
    \/ \E k \in 0..1 : cancelOrder_tx("r1", k)
    \/ \E s \in StockStatuses : updateStatus("r1", 1, s)
    \/ Len(db.payments) = 0 /\ initializePayment_read("r1", "u1", 1)
    \/ initializePayment_create("r1")
    \/ \E s \in WebhookStatus, a \in CallbackAmounts : handleWebhook_read("r1", 1, s, a)
    \/ \E k \in 0..1 : handleWebhook_tx("r1", k)
    \/ initiateRefund_read("r1", 1)
    \/ \E k \in 0..1 : initiateRefund_tx("r1", k)
    \/ \E n \in NewStock : updateVariantStock("r1", "vA", n)
    \/ \E n \in NewStock : updateVariant("r1", "vA", [stockQuantity |-> n])
SpecStock == InitStocks /\ [][NextStock]_vars

(* SpecCancel: u1 and u2 check out one of vA each, and the two request
   handlers cancel the orders, concurrently. *)
InitCancel ==
    InitWith(SeedStore(SeedBasePrice, SeedPriceModifier,
                       [u \in Users |-> Cart(1, 0, NoCoupon)]))
NextCancel ==
    \/ CheckoutActions({"r1"})
    \/ CancelActions(Procs)
SpecCancel == InitCancel /\ [][NextCancel]_vars

(* SpecInitialize: u1 and u2 check out one of vA each, and the two request
   handlers initialize payments for the orders, concurrently. *)
InitInitialize ==
    InitWith(SeedStore(SeedBasePrice, SeedPriceModifier,
                       [u \in Users |-> Cart(1, 0, NoCoupon)]))
NextInitialize ==
    \/ CheckoutActions({"r1"})
    \/ \E p \in Procs, u \in Users, o \in AnyOrderId : initializePayment_read(p, u, o)
    \/ \E p \in Procs : initializePayment_create(p)
SpecInitialize == InitInitialize /\ [][NextInitialize]_vars

(* SpecPay: the payments of that order once it is checked out, with the clock
   running and the admin moving the order along. *)
InitPay ==
    InitWith(checkoutStatements(OneCartStore,
                                checkoutSnapshot(OneCartStore, "u1", "a1"), 4))
NextPay ==
    \/ Tick
    \/ AdminActions({"r1"})
    \/ PaymentActions({"r1"})
SpecPay == InitPay /\ [][NextPay]_vars

(* SpecPricing: the price helper called on amounts of every shape (zero, whole
   naira, kobo, the fraction of a kobo a percentage leaves, a discount above
   the subtotal), and one checkout of a cart drawn over prices and coupons. *)
PricingSubtotals ==
    {0, Kobo(20), Naira(1), Naira(100) + Kobo(1), Naira(1000), Naira(10000)}
PricingDiscounts == {0, Kobo(1), Naira(15) + 15, Naira(1000), Naira(20000)}
PricingShipping == {0, Naira(FLAT_SHIPPING_NAIRA)}
PricingBasePrices == {Naira(100) + Kobo(1), Naira(10000)}

InitPricing ==
    \E base \in PricingBasePrices, a \in 1..MaxQty, b \in 0..1,
       c \in Coupons \cup {NoCoupon} :
        InitWith(SeedStore([SeedBasePrice EXCEPT !["vA"] = base], SeedPriceModifier,
                           [u \in Users |-> IF u = "u1" THEN Cart(a, b, c) ELSE NoCart]))
NextPricing ==
    \/ \E s \in PricingSubtotals, sh \in PricingShipping, d \in PricingDiscounts :
          calculateOrderTotal_call(s, sh, d)
    \/ CheckoutActions({"r1"})
SpecPricing == InitPricing /\ [][NextPricing]_vars

----------------------------------------------------------------------------
(* Stock and atomicity of checkout (SpecCheckout) *)

(* Units of variant v in all created orders *)
soldQuantity(d, v) ==
    SumOf({[orderId |-> o, quantity |-> SumOf({i \in d.orders[o].items : i.variantId = v},
                                               "quantity")] :
              o \in 1..Len(d.orders)}, "quantity")

(* C1: under concurrent checkouts (no cancellation, no admin stock edit) no
   variant's stockQuantity is ever below 0 and the quantities of the variant
   in all created orders sum to at most its initial stock. *)
C1_StockNeverOversold ==
    \A v \in Variants : db.stock[v] >= 0 /\ soldQuantity(db, v) <= InitStock

CheckoutFailures == {"EMPTY_CART", "NOT_FOUND", "INSUFFICIENT_STOCK", "TX_FAILED"}

(* C2: a checkout that fails, on an empty or missing cart, on the address, on
   stock or inside the transaction, leaves the store exactly as it was: no
   order, no stock change, no coupon usedCount change, the cart untouched. *)
C2_FailedCheckoutPersistsNothing ==
    [][(last'.op = "checkout" /\ last'.outcome \in CheckoutFailures) => db' = db]_vars

(* A checkout has just failed on stock for a cart of two lines with a coupon,
   after another checkout took the stock. *)
C2_Witness ==
    /\ last = Response("checkout", "INSUFFICIENT_STOCK")
    /\ Len(db.orders) = 1
    /\ \E u \in Users :
          /\ Cardinality(CartLines(db.cart[u].items)) = 2
          /\ db.cart[u].couponId # NoCoupon
          /\ checkoutGuard(db, u, IF u = "u1" THEN "a1" ELSE "a2") = "INSUFFICIENT_STOCK"

----------------------------------------------------------------------------
(* Order totals (SpecPricing) *)

(* v is 7.5% of x to the nearest kobo, halves up *)
IsVatOf(v, x) == v % 100 = 0 /\ 40 * v - 2000 <= 3 * x /\ 3 * x < 40 * v + 2000

(* r is x to the nearest kobo, halves up *)
IsRounded2(r, x) == r % 100 = 0 /\ r - 50 <= x /\ x < r + 50

WholeKobo(x) == x % 100 = 0

preDiscountSubtotal(order) == SumOf(order.items, "totalPrice")

OrderTotalsAddUp(d) ==
    \A o \in 1..Len(d.orders) :
        LET order == d.orders[o]
        IN  /\ order.total = order.subtotal + order.vat + order.shippingCost
            /\ order.vat >= 0
            /\ IsVatOf(order.vat, Max(preDiscountSubtotal(order) - order.discount, 0))

(* C3, as stated: calculateOrderTotal returns discountedSubtotal =
   max(subtotal - discount, 0), vat = 7.5% of it rounded to two decimals and
   total = discountedSubtotal + vat + shipping, for all non-negative inputs;
   every order stores total = subtotal + vat + shippingCost. *)
C3_Original ==
    /\ calc.called =>
          LET ds == Max(calc.subtotal - calc.discount, 0)
          IN  /\ calc.result.discountedSubtotal = ds
              /\ IsVatOf(calc.result.vat, ds)
              /\ calc.result.total = ds + calc.result.vat + calc.shippingCost
    /\ OrderTotalsAddUp(db)

(* C3, amended: the returned discountedSubtotal and total are the two-decimal
   roundings of max(subtotal - discount, 0) and of that amount + vat +
   shipping, and vat is 7.5% of that amount rounded to two decimals, never
   negative; when the inputs are whole kobo nothing is rounded away and the
   three equalities of the claim hold exactly (10000, 1000, 2500 gives 9000,
   675, 12175); every order stores total = subtotal + vat + shippingCost. *)
C3_TotalsRounded ==
    /\ calc.called =>
          LET ds == Max(calc.subtotal - calc.discount, 0)
              r == calc.result
          IN  /\ IsRounded2(r.discountedSubtotal, ds)
              /\ IsVatOf(r.vat, ds)
              /\ r.vat >= 0
              /\ IsRounded2(r.total, ds + r.vat + calc.shippingCost)
              /\ r.total = r.discountedSubtotal + r.vat + calc.shippingCost
              /\ (WholeKobo(calc.subtotal) /\ WholeKobo(calc.discount)) =>
                    /\ r.discountedSubtotal = ds
                    /\ r.total = ds + r.vat + calc.shippingCost
              /\ (calc.subtotal = Naira(10000) /\ calc.discount = Naira(1000)
                    /\ calc.shippingCost = Naira(2500)) =>
                    r = [vat |-> Naira(675), total |-> Naira(12175),
                         discountedSubtotal |-> Naira(9000)]
    /\ OrderTotalsAddUp(db)

(* The helper was called with a discount that has a fraction of a kobo, and a
   checkout with the percentage coupon stored an order with such a discount. *)
C3_Witness ==
    /\ calc.called
    /\ ~WholeKobo(calc.discount)
    /\ calc.discount < calc.subtotal
    /\ \E o \in 1..Len(db.orders) :
          /\ ~WholeKobo(db.orders[o].discount)
          /\ db.orders[o].vat > 0

----------------------------------------------------------------------------
(* Cancellation and the order status (Spec) *)

orderedQuantity(items, v) == SumOf({i \in items : i.variantId = v}, "quantity")

(* A step in which handler p finishes the transaction of operation op *)
Completes(p, op) == req[p].op = op /\ req'[p] = Idle

(* C5: cancelOrder on a cancellable order of the caller adds each order
   item's quantity back to its variant's stock and sets the order CANCELLED,
   paid or not; cancelOrder on the CANCELLED order fails with
   CANCEL_NOT_ALLOWED and leaves the stock as it is. *)
C5_CancelRestoresStockOnce ==
    [][/\ \A p \in Procs :
            (Completes(p, "cancelOrder") /\ last'.outcome = "CANCELLED") =>
                /\ \A v \in Variants :
                      db'.stock[v] = db.stock[v] + orderedQuantity(req[p].items, v)
                /\ req[p].items = db.orders[req[p].orderId].items
                /\ db'.orders[req[p].orderId].status = "CANCELLED"
       /\ \A p \in Procs, u \in Users, o \in AnyOrderId :
            (/\ cancelOrder_read(p, u, o)
             /\ orderFound(db, u, o)
             /\ db.orders[o].status = "CANCELLED") =>
                /\ last' = Response("cancelOrder", "CANCEL_NOT_ALLOWED")
                /\ req' = req
                /\ db' = db]_vars

(* A paid order (it has a SUCCESS payment) was cancelled and both variants
   have their initial stock again. *)
C5_Witness ==
    /\ last = Response("cancelOrder", "CANCELLED")
    /\ Len(db.orders) = 1
    /\ db.orders[1].status = "CANCELLED"
    /\ Cardinality({i \in db.orders[1].items : i.quantity > 0}) = 2
    /\ \A v \in Variants : db.stock[v] = InitStock
    /\ \E i \in paymentsOf(db, 1) : db.payments[i].status = "SUCCESS"

(* C6: cancelOrder goes ahead only for an order of the caller whose status,
   as the call reads it, is PENDING or CONFIRMED; for any other status it
   fails with CANCEL_NOT_ALLOWED, and for a missing order or another user's
   order with ORDER_NOT_FOUND, changing neither the order nor any stock. *)
C6_CancelOnlyFromPendingOrConfirmed ==
    [][/\ \A p \in Procs, u \in Users, o \in AnyOrderId :
            cancelOrder_read(p, u, o) =>
                IF ~(o \in OrderIds /\ db.orders[o].userId = u)
                THEN last' = Response("cancelOrder", "ORDER_NOT_FOUND")
                     /\ req' = req /\ db' = db
                ELSE IF db.orders[o].status \notin {"PENDING", "CONFIRMED"}
                THEN last' = Response("cancelOrder", "CANCEL_NOT_ALLOWED")
                     /\ req' = req /\ db' = db
                ELSE req'[p].op = "cancelOrder" /\ req'[p].orderId = o /\ db' = db
       /\ \A p \in Procs :
            (req[p] = Idle /\ req'[p].op = "cancelOrder") =>
                /\ db.orders[req'[p].orderId].status \in {"PENDING", "CONFIRMED"}
                /\ db.orders[req'[p].orderId].userId = req'[p].userId
       /\ (last'.op = "cancelOrder"
             /\ last'.outcome \in {"CANCEL_NOT_ALLOWED", "ORDER_NOT_FOUND"}) =>
                db' = db]_vars

(* A cancellation of a SHIPPED order was just refused, the stock still
   decremented. *)
C6_Witness ==
    /\ last = Response("cancelOrder", "CANCEL_NOT_ALLOWED")
    /\ Len(db.orders) = 1
    /\ db.orders[1].status = "SHIPPED"
    /\ \E v \in Variants : db.stock[v] < InitStock

NewOrdersArePending ==
    /\ Len(db'.orders) >= Len(db.orders)
    /\ \A o \in (Len(db.orders) + 1)..Len(db'.orders) :
          db'.orders[o].status = "PENDING" /\ last'.op = "checkout"

BecomesConfirmed(o) ==
    db.orders[o].status # "CONFIRMED" /\ db'.orders[o].status = "CONFIRMED"

ByPaymentWebhook(o) ==
    /\ last' = Response("handleWebhook", "SUCCESS")
    /\ \E p \in Procs :
          /\ Completes(p, "handleWebhook")
          /\ req[p].dto.status = "SUCCESS"
          /\ req[p].paymentId \in paymentsOf(db, o)

(* C7, as stated: every order is created PENDING by checkout, and only a
   SUCCESS payment webhook for one of its payments moves an order to
   CONFIRMED: not checkout, cancel, admin status update or refund. *)
C7_Original ==
    [][/\ NewOrdersArePending
       /\ \A o \in OrderIds : BecomesConfirmed(o) => ByPaymentWebhook(o)]_vars

(* C7, amended: every order is created PENDING by checkout, and an order
   moves to CONFIRMED only by a SUCCESS payment webhook for one of its
   payments or by an admin updateStatus whose target is CONFIRMED; checkout,
   cancel and refund never move an order to CONFIRMED. *)
C7_ConfirmedByWebhookOrAdmin ==
    [][/\ NewOrdersArePending
       /\ \A o \in OrderIds :
            BecomesConfirmed(o) =>
                \/ ByPaymentWebhook(o)
                \/ last' = Response("updateStatus", "CONFIRMED")]_vars

(* The order was created by checkout and then confirmed by the SUCCESS
   webhook of its payment. *)
C7_Witness ==
    /\ last = Response("handleWebhook", "SUCCESS")
    /\ Len(db.orders) = 1
    /\ db.orders[1].status = "CONFIRMED"
    /\ \E i \in paymentsOf(db, 1) : db.payments[i].status = "SUCCESS"

----------------------------------------------------------------------------
(* Payment webhooks (SpecPay) *)

SuccessPayments(d, o) == {i \in paymentsOf(d, o) : d.payments[i].status = "SUCCESS"}

(* C4: a SUCCESS webhook delivered again for a payment that the same
   callback already made SUCCESS succeeds and changes nothing: paidAt keeps
   its first value and the order status is not written again. *)
C4_RepeatedSuccessChangesNothing ==
    [][\A p \in Procs :
          (/\ Completes(p, "handleWebhook")
           /\ last' = Response("handleWebhook", "SUCCESS")
           /\ db.payments[req[p].paymentId].status = "SUCCESS"
           /\ db.payments[req[p].paymentId].metadata = req[p].dto) =>
              db' = db]_vars

(* C8: a webhook whose reference matches no payment, or whose amount differs
   from the payment's amount, fails with PaymentFailed and changes nothing:
   only a callback for a known payment with the matching amount is taken
   up, and only such a callback ever writes. *)
C8_RejectedWebhookMutatesNothing ==
    [][/\ \A p \in Procs, r \in AnyReference, st \in WebhookStatus, a \in CallbackAmounts :
            handleWebhook_read(p, r, st, a) =>
                IF r \notin PaymentIds
                THEN last' = Response("handleWebhook", "PAYMENT_FAILED")
                     /\ req' = req /\ db' = db
                ELSE IF db.payments[r].amount # a
                THEN last' = Response("handleWebhook", "PAYMENT_FAILED_AMOUNT_MISMATCH")
                     /\ req' = req /\ db' = db
                ELSE req'[p].op = "handleWebhook" /\ db' = db
       /\ \A p \in Procs :
            (req[p] = Idle /\ req'[p].op = "handleWebhook") =>
                /\ req'[p].paymentId \in PaymentIds
                /\ db.payments[req'[p].paymentId].amount = req'[p].dto.amount
       /\ \A p \in Procs :
            Completes(p, "handleWebhook") =>
                /\ req[p].paymentId \in PaymentIds
                /\ db.payments[req[p].paymentId].amount = req[p].dto.amount
       /\ (last'.op = "handleWebhook"
             /\ last'.outcome \in {"PAYMENT_FAILED", "PAYMENT_FAILED_AMOUNT_MISMATCH"}) =>
                db' = db]_vars

(* A callback with the wrong amount for an existing PENDING payment was just
   refused; the payment is still PENDING and unpaid, the order still
   PENDING. *)
C8_Witness ==
    /\ last = Response("handleWebhook", "PAYMENT_FAILED_AMOUNT_MISMATCH")
    /\ Len(db.payments) >= 1
    /\ db.payments[1].status = "PENDING"
    /\ db.payments[1].paidAt = 0
    /\ db.orders[1].status = "PENDING"

(* C9: an accepted webhook sets, in one transaction, the payment's status
   to the reported status, its paidAt to the time of the call if the status
   is SUCCESS and to null otherwise, and its metadata to the payload, and
   sets the order CONFIRMED if the status is SUCCESS and leaves the order
   alone otherwise; nothing else changes, and a transaction that fails
   changes nothing at all. *)
C9_WebhookAppliedAtomically ==
    [][\A p \in Procs :
          Completes(p, "handleWebhook") =>
              LET s == req[p]
                  success == s.dto.status = "SUCCESS"
              IN  IF last' = Response("handleWebhook", "TX_FAILED")
                  THEN db' = db
                  ELSE /\ last' = Response("handleWebhook", s.dto.status)
                       /\ db'.payments[s.paymentId].status = s.dto.status
                       /\ db'.payments[s.paymentId].paidAt = (IF success THEN now ELSE 0)
                       /\ (db'.payments[s.paymentId].paidAt > 0) <=> success
                       /\ db'.payments[s.paymentId].metadata = s.dto
                       /\ \A i \in PaymentIds \ {s.paymentId} :
                             db'.payments[i] = db.payments[i]
                       /\ Len(db'.payments) = Len(db.payments)
                       /\ db'.orders =
                             IF success
                             THEN [db.orders EXCEPT ![s.orderId].status = "CONFIRMED"]
                             ELSE db.orders
                       /\ db'.stock = db.stock
                       /\ db'.cart = db.cart
                       /\ db'.coupon = db.coupon]_vars

(* A SUCCESS callback was just applied: the payment is SUCCESS with a paidAt
   and the payload stored, and its order is CONFIRMED. *)
C9_Witness ==
    /\ last = Response("handleWebhook", "SUCCESS")
    /\ \E i \in PaymentIds :
          /\ db.payments[i].status = "SUCCESS"
          /\ db.payments[i].paidAt = now
          /\ db.payments[i].metadata.status = "SUCCESS"
          /\ db.orders[db.payments[i].orderId].status = "CONFIRMED"

(* C10: no order ever has more than one payment with status SUCCESS. *)
C10_AtMostOneSuccessPayment ==
    \A o \in OrderIds : Cardinality(SuccessPayments(db, o)) <= 1

(* C11: initiateRefund goes ahead only for an existing payment whose status,
   as the call reads it, is SUCCESS, and then sets that payment and its order
   REFUNDED in one transaction, changing nothing else; for a missing payment
   or a payment that is PENDING, FAILED or REFUNDED it fails with
   PaymentFailed, and then, as when the transaction fails, neither the
   payment nor the order changes. *)
C11_RefundOnlySuccessPayment ==
    [][/\ \A p \in Procs, r \in AnyReference :
            initiateRefund_read(p, r) =>
                IF r \notin PaymentIds \/ db.payments[r].status \in {"PENDING", "FAILED", "REFUNDED"}
                THEN last' = Response("initiateRefund", "PAYMENT_FAILED")
                     /\ req' = req /\ db' = db
                ELSE /\ db.payments[r].status = "SUCCESS"
                     /\ req'[p].op = "initiateRefund"
                     /\ req'[p].paymentId = r
                     /\ req'[p].orderId = db.payments[r].orderId
                     /\ db' = db
       /\ \A p \in Procs :
            Completes(p, "initiateRefund") =>
                IF last' = Response("initiateRefund", "TX_FAILED")
                THEN db' = db
                ELSE /\ last' = Response("initiateRefund", "REFUND_SUCCESS")
                     /\ db'.payments =
                           [db.payments EXCEPT ![req[p].paymentId].status = "REFUNDED"]
                     /\ db'.orders =
                           [db.orders EXCEPT ![req[p].orderId].status = "REFUNDED"]
                     /\ db'.stock = db.stock
                     /\ db'.cart = db.cart
                     /\ db'.coupon = db.coupon
       /\ (last'.op = "initiateRefund" /\ last'.outcome = "PAYMENT_FAILED") =>
                db' = db]_vars

(* A refund just went through: the payment, paid earlier, and its order are
   both REFUNDED. *)
C11_Witness ==
    /\ last = Response("initiateRefund", "REFUND_SUCCESS")
    /\ \E i \in PaymentIds :
          /\ db.payments[i].status = "REFUNDED"
          /\ db.payments[i].paidAt > 0
          /\ db.orders[db.payments[i].orderId].status = "REFUNDED"

----------------------------------------------------------------------------
(* The cart and its coupon (SpecCart) *)

(* Sum over the lines of (basePrice + priceModifier) x quantity *)
ExpectedSubtotal(d, items) ==
    (d.basePrice["vA"] + d.priceModifier["vA"]) * items["vA"]
        + (d.basePrice["vB"] + d.priceModifier["vB"]) * items["vB"]

(* The rules applyCoupon tests before the minimum, all passed *)
PassesEarlierRules(d, t, userId, code) ==
    /\ d.cart[userId].exists
    /\ \E v \in Variants : d.cart[userId].items[v] > 0
    /\ d.coupon[code].isActive
    /\ d.coupon[code].startsAt <= t /\ t <= d.coupon[code].expiresAt
    /\ d.coupon[code].maxUses = 0 \/ d.coupon[code].usedCount < d.coupon[code].maxUses

(* C14: applyCoupon of a coupon whose minOrderAmount is above the cart's
   subtotal never attaches it and leaves the cart's coupon as it was; when
   the cart and the coupon pass the rules tested before, the error is
   COUPON_MIN_NOT_MET and carries that minimum; and COUPON_MIN_NOT_MET is
   never the answer when the subtotal reaches the minimum. *)
C14_MinimumNotMetRejected ==
    [][\A p \in Procs, u \in Users, c \in Coupons :
          applyCoupon(p, u, c) =>
              LET subtotal == ExpectedSubtotal(db, db.cart[u].items)
                  min == db.coupon[c].minOrderAmount
              IN  /\ min > subtotal =>
                        /\ last'.outcome # "COUPON_APPLIED"
                        /\ db' = db
                  /\ (min > subtotal /\ PassesEarlierRules(db, now, u, c)) =>
                        /\ last'.outcome = "COUPON_MIN_NOT_MET"
                        /\ last'.minAmount.naira * 10000 + last'.minAmount.kobo * 100 = min
                  /\ last'.outcome = "COUPON_MIN_NOT_MET" =>
                        /\ min > subtotal
                        /\ db' = db
                  /\ (min <= subtotal /\ PassesEarlierRules(db, now, u, c)) =>
                        /\ last'.outcome = "COUPON_APPLIED"
                        /\ db'.cart[u].couponId = c]_vars

(* FIX was just refused for its minimum of 11000 on a cart worth less, and
   the cart still carries the coupon attached before. *)
C14_Witness ==
    /\ last.op = "applyCoupon"
    /\ last.outcome = "COUPON_MIN_NOT_MET"
    /\ last.minAmount = [naira |-> 11000, kobo |-> 0]
    /\ db.cart["u1"].couponId = "SHIP"
    /\ ExpectedSubtotal(db, db.cart["u1"].items) \in 1..(Naira(11000) - 1)

(* The cart response data agrees with the cart of userId persisted in d. *)
ViewAgrees(data, d, userId) ==
    LET cart == d.cart[userId]
    IN  /\ data.itemCount = cart.items["vA"] + cart.items["vB"]
        /\ data.subtotal = ExpectedSubtotal(d, cart.items)
        /\ cart.couponId = NoCoupon => data.discount = 0
        /\ data.discount >= 0
        /\ data.total = (IF data.subtotal - data.discount > 0
                         THEN data.subtotal - data.discount ELSE 0)
        /\ data.coupon = cart.couponId

(* C15: getCart, and the cart sent back by addItem, updateItem, removeItem,
   applyCoupon and removeCoupon, carries itemCount = the sum of the persisted
   line quantities, subtotal = the sum over the lines of (basePrice +
   priceModifier) x quantity at the current prices, discount = 0 when no
   coupon is attached, and total = max(0, subtotal - discount); getCart
   changes nothing. *)
C15_CartTotalsFollowLines ==
    [][/\ \A p \in Procs, u \in Users :
            getCart(p, u) =>
                /\ view'.userId = u
                /\ ViewAgrees(view'.data, db, u)
                /\ db' = db
       /\ view' # view => ViewAgrees(view'.data, db', view'.userId)]_vars

(* addItem(vA, 2) on a cart without lines, then getCart: itemCount 2 and
   subtotal twice the price of vA, no discount. *)
C15_Witness ==
    /\ last = Response("getCart", "OK")
    /\ view.userId = "u1"
    /\ db.cart["u1"].items = [NoItems EXCEPT !["vA"] = 2]
    /\ db.cart["u1"].couponId = NoCoupon
    /\ view.data.itemCount = 2
    /\ view.data.subtotal = 2 * (db.basePrice["vA"] + db.priceModifier["vA"])
    /\ view.data.discount = 0
    /\ view.data.total = view.data.subtotal

(* C18: applyCoupon takes a coupon only at a time in [startsAt, expiresAt):
   at any time before startsAt, at expiresAt or after it, the coupon is not
   attached, and a non-empty cart applying an active coupon gets the
   expired error. *)
C18_WindowHalfOpen ==
    [][\A p \in Procs, u \in Users, c \in Coupons :
          (applyCoupon(p, u, c)
             /\ (now < db.coupon[c].startsAt \/ now >= db.coupon[c].expiresAt)) =>
              /\ db' = db
              /\ last'.outcome # "COUPON_APPLIED"
              /\ (db.cart[u].exists
                    /\ (\E v \in Variants : db.cart[u].items[v] > 0)
                    /\ db.coupon[c].isActive) =>
                        last' = Response("applyCoupon", "COUPON_EXPIRED")]_vars

----------------------------------------------------------------------------
(* Coupons at checkout (SpecPromo) *)

(* C12: no coupon with maxUses set is ever used more often than maxUses. *)
C12_UsedCountWithinCap ==
    \A c \in Coupons :
        db.coupon[c].maxUses # 0 => db.coupon[c].usedCount <= db.coupon[c].maxUses

(* The coupon fails one of the rules at time t for an order of that subtotal:
   inactive, not started, past its end, used up, or the minimum not met. *)
FailsCouponRules(d, t, code, subtotal) ==
    LET coupon == d.coupon[code]
    IN  \/ ~coupon.isActive
        \/ t < coupon.startsAt
        \/ t > coupon.expiresAt
        \/ coupon.maxUses # 0 /\ coupon.usedCount >= coupon.maxUses
        \/ coupon.minOrderAmount # 0 /\ subtotal < coupon.minOrderAmount

(* C13: when checkout reads a cart whose coupon fails the rules at that
   time, against the subtotal it recomputes, the order it builds, which is
   the order it creates, has discount 0. *)
C13_CouponRevalidatedAtCheckout ==
    [][\A p \in Procs :
          /\ (/\ req[p] = Idle
              /\ req'[p].op = "checkout"
              /\ req'[p].couponId # NoCoupon
              /\ FailsCouponRules(db, now, req'[p].couponId,
                                  SumOf(req'[p].orderItems, "totalPrice"))) =>
                  req'[p].order.discount = 0
          /\ (Completes(p, "checkout") /\ last'.outcome = "CREATED") =>
                  db'.orders = Append(db.orders, req[p].order)]_vars

----------------------------------------------------------------------------
(* Coupon types at checkout (SpecPricing) *)

OrdersWithCoupon(d, type) ==
    {o \in 1..Len(d.orders) :
        d.orders[o].couponId # NoCoupon /\ d.coupon[d.orders[o].couponId].type = type}

(* C16: an order created from a cart with a FREE_SHIPPING coupon has
   shippingCost 0 and discount 0, and so total = subtotal + vat. *)
C16_FreeShippingWaivesShipping ==
    \A o \in OrdersWithCoupon(db, "FREE_SHIPPING") :
        /\ db.orders[o].shippingCost = 0
        /\ db.orders[o].discount = 0
        /\ db.orders[o].total = db.orders[o].subtotal + db.orders[o].vat

(* C17: the discount stored on an order created with a FIXED_AMOUNT coupon
   is at most the sum of the order items' totalPrice. *)
C17_FixedDiscountClamped ==
    \A o \in OrdersWithCoupon(db, "FIXED_AMOUNT") :
        db.orders[o].discount <= SumOf(db.orders[o].items, "totalPrice")

----------------------------------------------------------------------------
(* The usage counter over the life of an order (SpecCoupon) *)

CheckoutCreates(p) == Completes(p, "checkout") /\ last'.outcome = "CREATED"

(* C19: a checkout that creates an order from a cart with a coupon adds
   exactly 1 to that coupon's usedCount, however many lines the order has,
   and changes no other coupon; a checkout without a coupon, and every other
   step (cancellation, refund, admin status update, removeCoupon, a failed
   checkout), changes no coupon; so no usedCount ever decreases. *)
C19_UsedCountStepsByOne ==
    [][/\ \A p \in Procs :
            CheckoutCreates(p) =>
                LET order == db'.orders[Len(db'.orders)]
                IN  /\ Len(db'.orders) = Len(db.orders) + 1
                    /\ order.couponId = req[p].couponId
                    /\ order.couponId # NoCoupon =>
                          db'.coupon =
                              [db.coupon EXCEPT ![order.couponId].usedCount = @ + 1]
                    /\ order.couponId = NoCoupon => db'.coupon = db.coupon
       /\ (~ \E p \in Procs : CheckoutCreates(p)) => db'.coupon = db.coupon
       /\ \A c \in Coupons : db'.coupon[c].usedCount >= db.coupon[c].usedCount]_vars

(* The order of two lines was created with a coupon, which counts 1 use,
   and has since been paid and refunded. *)
C19_Witness ==
    /\ last = Response("initiateRefund", "REFUND_SUCCESS")
    /\ Len(db.orders) = 1
    /\ Cardinality(db.orders[1].items) = 2
    /\ db.orders[1].couponId # NoCoupon
    /\ db.coupon[db.orders[1].couponId].usedCount = 1
    /\ \A c \in Coupons \ {db.orders[1].couponId} : db.coupon[c].usedCount = 0

----------------------------------------------------------------------------
(* The order as a record of the sale (SpecFrozen) *)

(* What an order keeps of the sale: the amounts, the lines with their
   quantities, prices and product names, and the copy of the address. *)
SaleRecord(order) ==
    [subtotal |-> order.subtotal,
     discount |-> order.discount,
     shippingCost |-> order.shippingCost,
     vat |-> order.vat,
     total |-> order.total,
     items |-> order.items,
     shippingAddress |-> order.shippingAddress]

(* C20: no step (cancelOrder, updateStatus, handleWebhook, initiateRefund,
   updateAddress, deleteAddress, a product or variant update) removes an
   order or changes an order's amounts, its items or its copy of the
   shipping address. *)
C20_OrderSaleRecordFrozen ==
    [][/\ Len(db'.orders) >= Len(db.orders)
       /\ \A o \in 1..Len(db.orders) :
             SaleRecord(db'.orders[o]) = SaleRecord(db.orders[o])]_vars

(* The order has been refunded, its address deleted and vA renamed and
   repriced, and it still shows the street, the name and the unit price of
   the day of the sale. *)
C20_Witness ==
    /\ Len(db.orders) = 1
    /\ db.orders[1].status = "REFUNDED"
    /\ ~db.address["a1"].exists
    /\ db.orders[1].shippingAddress.street = "Allen Avenue"
    /\ db.basePrice["vA"] # SeedBasePrice["vA"]
    /\ db.priceModifier["vA"] # SeedPriceModifier["vA"]
    /\ \E i \in db.orders[1].items :
          /\ i.variantId = "vA"
          /\ i.unitPrice = SeedBasePrice["vA"] + SeedPriceModifier["vA"]
          /\ i.productName = SeedProductNames["vA"]
          /\ i.productName # db.productName["vA"]

----------------------------------------------------------------------------
(* Cart lines and cart rows under concurrent requests (SpecLines) *)

CartRows(d) == [u \in Users |-> [rows |-> d.cart[u].rows, lines |-> d.cart[u].lines,
                                 items |-> d.cart[u].items]]

(* C21: no cart ever holds two lines of one variant. An addItem that found a
   line of the variant in the caller's cart creates none: it sets that line to
   the quantity it found plus the requested one, and when that sum exceeds the
   stock the call read it fails with InsufficientStock and changes no line. *)
C21_OneLinePerVariant ==
    [][/\ \A u \in Users, v \in Variants :
            cartId_variantId(db, u, v) <= 1 /\ cartId_variantId(db', u, v) <= 1
       /\ \A p \in Procs :
            addItem_write(p) /\ req[p].found /\ last'.outcome = "ITEM_ADDED" =>
                LET u == req[p].userId
                    v == req[p].variantId
                IN  /\ db'.cart[u].lines = db.cart[u].lines
                    /\ db'.cart[u].items =
                           [db.cart[u].items EXCEPT ![v] = req[p].existing + req[p].quantity]
       /\ \A p \in Procs :
            (/\ addItem_findItem(p)
             /\ cartId_variantId(db, req[p].userId, req[p].variantId) > 0
             /\ db.cart[req[p].userId].items[req[p].variantId] + req[p].quantity
                    > req[p].stockQuantity) =>
                /\ last' = InsufficientStock("addItem", req[p].stockQuantity)
                /\ req'[p] = Idle
                /\ db' = db]_vars

(* The cart holds two of vA, as many as there are, and an addItem of vA has
   just been refused with the two available: the line is as it was. *)
C21_Witness ==
    /\ last = InsufficientStock("addItem", InitStock)
    /\ db.stock["vA"] = InitStock
    /\ cartId_variantId(db, "u1", "vA") = 1
    /\ db.cart["u1"].items["vA"] = InitStock

(* C22: a successful addItem or updateItem leaves its line with a quantity
   from 1 to the stockQuantity that call read. An addItem of a variant that
   is missing or inactive fails with NotFound, of one with no stock with
   OutOfStock, and an addItem or updateItem asking for more than the stock it
   read with InsufficientStock carrying that stock; every failure of the two
   leaves all cart lines as they were. *)
C22_LineWithinStockRead ==
    [][/\ \A p \in Procs :
            (\/ addItem_write(p) /\ last'.outcome = "ITEM_ADDED"
             \/ updateItem_write(p) /\ last'.outcome = "ITEM_UPDATED") =>
                LET quantity == db'.cart[req[p].userId].items[req[p].variantId]
                IN  1 <= quantity /\ quantity <= req[p].stockQuantity
       /\ \A p \in Procs, u \in Users, v \in AnyVariantId, q \in 1..MaxQty :
            addItem_read(p, u, v, q) =>
                IF v \notin Variants THEN last' = Response("addItem", "NOT_FOUND")
                ELSE IF ~db.isActive[v] THEN last' = Response("addItem", "NOT_FOUND")
                ELSE IF db.stock[v] = 0 THEN last' = Response("addItem", "OUT_OF_STOCK")
                ELSE IF q > db.stock[v] THEN last' = InsufficientStock("addItem", db.stock[v])
                ELSE req'[p].stockQuantity = db.stock[v]
       /\ \A p \in Procs, u \in Users, v \in Variants, q \in 1..MaxQty :
            (/\ updateItem_read(p, u, v, q)
             /\ cartId_variantId(db, u, v) > 0) =>
                IF q > db.stock[v] THEN last' = InsufficientStock("updateItem", db.stock[v])
                ELSE req'[p].stockQuantity = db.stock[v]
       /\ (/\ last' # last
           /\ last'.op \in {"addItem", "updateItem"}
           /\ last'.outcome \notin {"ITEM_ADDED", "ITEM_UPDATED"}) =>
                CartRows(db') = CartRows(db)]_vars

(* updateItem read a stock of two and set the line to two after the admin had
   lowered the stock to one: the line is within the stock the call read. *)
C22_Witness ==
    /\ last = Response("updateItem", "ITEM_UPDATED")
    /\ db.cart["u1"].items["vA"] = 2
    /\ db.stock["vA"] = 1

(* C25: every owner has at most one cart row. A row comes into being only in
   getOrCreateCart, called by an addItem that found none for its caller, and
   only while the caller still has none. *)
C25_OneCartPerOwner ==
    [][\A u \in Users :
          /\ Cart_userId(db, u) <= 1 /\ Cart_userId(db', u) <= 1
          /\ db.cart[u].exists <=> Cart_userId(db, u) > 0
          /\ Cart_userId(db', u) # Cart_userId(db, u) =>
                \E p \in Procs :
                    /\ addItem_createCart(p)
                    /\ req[p].userId = u
                    /\ Cart_userId(db, u) = 0]_vars

(* Two first addItem calls of u1 both found no cart; one created it and the
   other's cart.create has just been refused: u1 has one cart. *)
C25_Witness ==
    /\ last = Response("getOrCreateCart", "UNIQUE_CONSTRAINT")
    /\ Cart_userId(db, "u1") = 1
    /\ db.cart["u1"].exists

----------------------------------------------------------------------------
(* The admin's status updates (Spec) *)

(* C23: updateStatus has no transition guard. Whatever the status of an
   existing order, an idle handler can set it to each of the seven statuses;
   the call answers with the new status and changes that order's status and
   nothing else: no stock, no payment, no other field of the order, no other
   order. For an order that does not exist it answers ORDER_NOT_FOUND and
   changes nothing. *)
C23_UpdateStatusUnguarded ==
    [][\A p \in Procs, o \in AnyOrderId, s \in OrderStatus :
          /\ (req[p] = Idle /\ o \in OrderIds) => ENABLED updateStatus(p, o, s)
          /\ updateStatus(p, o, s) =>
                IF o \in OrderIds
                THEN /\ last' = Response("updateStatus", s)
                     /\ db'.orders[o] = [db.orders[o] EXCEPT !.status = s]
                     /\ \A o2 \in OrderIds \ {o} : db'.orders[o2] = db.orders[o2]
                     /\ Len(db'.orders) = Len(db.orders)
                     /\ db'.stock = db.stock
                     /\ db'.payments = db.payments
                     /\ db'.cart = db.cart
                     /\ db'.coupon = db.coupon
                ELSE /\ last' = Response("updateStatus", "ORDER_NOT_FOUND")
                     /\ db' = db]_vars

(* The admin has set the paid order of u1 to CANCELLED: the two of vA it
   holds are not back in stock, and its payment is still SUCCESS. *)
C23_Witness ==
    /\ last = Response("updateStatus", "CANCELLED")
    /\ Len(db.orders) = 1
    /\ db.orders[1].status = "CANCELLED"
    /\ db.stock["vA"] = InitStock - orderedQuantity(db.orders[1].items, "vA")
    /\ orderedQuantity(db.orders[1].items, "vA") > 0
    /\ \E i \in 1..Len(db.payments) :
          db.payments[i].orderId = 1 /\ db.payments[i].status = "SUCCESS"

----------------------------------------------------------------------------
(* Who writes stockQuantity (SpecStock) *)

StockEdit(v) ==
    \E p \in Procs, n \in 0..MaxStock :
        \/ updateVariantStock(p, v, n)
        \/ updateVariant(p, v, [stockQuantity |-> n])

CheckoutTransaction == \E p \in Procs, k \in 0..4 : checkout_tx(p, k)
CancellationTransaction == \E p \in Procs, k \in 0..2 : cancelOrder_tx(p, k)

(* The cart, coupon, payment and admin order-status steps *)
StockReaders ==
    \/ \E p \in Procs, u \in Users, v \in AnyVariantId, q \in 1..MaxQty :
          addItem_read(p, u, v, q)
    \/ \E p \in Procs : addItem_createCart(p) \/ addItem_findItem(p) \/ addItem_write(p)
    \/ \E p \in Procs, u \in Users, v \in Variants, q \in 1..MaxQty :
          updateItem_read(p, u, v, q)
    \/ \E p \in Procs : updateItem_write(p)
    \/ \E p \in Procs, u \in Users, v \in Variants : removeItem(p, u, v)
    \/ \E p \in Procs, u \in Users : clearCart(p, u) \/ getCart(p, u) \/ removeCoupon(p, u)
    \/ \E p \in Procs, u \in Users, c \in AnyCouponCode : applyCoupon(p, u, c)
    \/ \E p \in Procs, u \in Users, o \in AnyOrderId : initializePayment_read(p, u, o)
    \/ \E p \in Procs : initializePayment_create(p)
    \/ \E p \in Procs, r \in AnyReference, s \in WebhookStatus, a \in CallbackAmounts :
          handleWebhook_read(p, r, s, a)
    \/ \E p \in Procs, k \in 0..2 : handleWebhook_tx(p, k) \/ initiateRefund_tx(p, k)
    \/ \E p \in Procs, r \in AnyReference : initiateRefund_read(p, r)
    \/ \E p \in Procs, o \in AnyOrderId, s \in OrderStatus : updateStatus(p, o, s)

(* C24 as stated: a step that lowers a variant's stockQuantity is a step of
   the checkout transaction, and a step that raises it is a step of the
   cancellation transaction. *)
C24_Original ==
    [][\A v \in Variants :
          /\ db'.stock[v] < db.stock[v] => CheckoutTransaction
          /\ db'.stock[v] > db.stock[v] => CancellationTransaction]_vars

(* C24: a step that lowers a variant's stockQuantity is a step of the checkout
   transaction or an admin's edit of that variant's stock, and a step that
   raises it is a step of the cancellation transaction or such an edit; the
   cart operations, the coupon operations, payment initialization, the
   webhook, the refund and the admin's order-status update leave every
   stockQuantity as it is (no step that changes one is a step of theirs). *)
C24_StockWriters ==
    [][/\ \A v \in Variants :
            /\ db'.stock[v] < db.stock[v] => CheckoutTransaction \/ StockEdit(v)
            /\ db'.stock[v] > db.stock[v] => CancellationTransaction \/ StockEdit(v)
       /\ db'.stock # db.stock => ~StockReaders]_vars

(* One of vA is ordered and not cancelled, and the admin has just set the
   stock of vA to 0: the one left after the checkout went without one. *)
C24_Witness ==
    /\ last = Response("updateVariantStock", "STOCK_UPDATED")
    /\ Len(db.orders) = 1
    /\ db.orders[1].status # "CANCELLED"
    /\ orderedQuantity(db.orders[1].items, "vA") = 1
    /\ db.stock["vA"] = 0

----------------------------------------------------------------------------
(* Stock conservation (Spec) and concurrent cancellations (SpecCancel) *)

(* Units of variant v in the orders that are not cancelled *)
heldQuantity(d, v) ==
    SumOf({[orderId |-> o, quantity |-> orderedQuantity(d.orders[o].items, v)] :
              o \in {i \in 1..Len(d.orders) : d.orders[i].status # "CANCELLED"}},
          "quantity")

(* C26: whatever checkout, cancelOrder, handleWebhook, initiateRefund and the
   admin's updateStatus have done, every variant's stockQuantity plus its
   quantities in the orders that are not CANCELLED is its initial stock. *)
C26_StockConserved ==
    \A v \in Variants : db.stock[v] + heldQuantity(db, v) = InitStock

(* C27: whatever the interleaving of the cancelOrder requests, no order's
   quantities come back to the stock twice: with checkouts and cancellations
   only, no variant's stockQuantity exceeds its initial stock. *)
C27_RestoredAtMostOnce ==
    \A v \in Variants : db.stock[v] <= InitStock

----------------------------------------------------------------------------
(* Late and repeated callbacks (SpecPay), concurrent initializations
   (SpecInitialize) *)

(* C28: a webhook changes an order's status only from PENDING, and only to
   CONFIRMED: an order that is CONFIRMED, PROCESSING, SHIPPED, DELIVERED,
   CANCELLED or REFUNDED keeps its status when a callback for one of its
   payments is applied. *)
C28_WebhookConfirmsOnlyPending ==
    [][\A p \in Procs :
          Completes(p, "handleWebhook") =>
              \A o \in OrderIds :
                  db'.orders[o].status # db.orders[o].status =>
                      /\ db.orders[o].status = "PENDING"
                      /\ db'.orders[o].status = "CONFIRMED"]_vars

(* C29: a webhook leaves the status and the paidAt of a payment that is
   SUCCESS or REFUNDED as they are, whatever status it reports. *)
C29_SettledPaymentKept ==
    [][\A p \in Procs :
          Completes(p, "handleWebhook") =>
              \A i \in PaymentIds :
                  db.payments[i].status \in {"SUCCESS", "REFUNDED"} =>
                      /\ db'.payments[i].status = db.payments[i].status
                      /\ db'.payments[i].paidAt = db.payments[i].paidAt]_vars

PendingPayments(d, o) == {i \in paymentsOf(d, o) : d.payments[i].status = "PENDING"}

(* C30: whatever the interleaving of the initializePayment calls, no order
   has more than one PENDING payment. *)
C30_AtMostOnePendingPayment ==
    \A o \in OrderIds : Cardinality(PendingPayments(db, o)) <= 1

====
